---- MODULE Spec2Model ----
(***************************************************************************)
(* Model of the conversational gateway: the session store                  *)
(* (core/session.py), the agent entry point (core/agent.py), the tool      *)
(* registry (core/tools.py) and the two model clients                      *)
(* (core/ollama_client.py, core/gemini.py).                                *)
(*                                                                         *)
(* Text is modelled by TLA+ strings; \o is concatenation, Len the length.  *)
(***************************************************************************)
EXTENDS Integers, Sequences, FiniteSets, TLC

(***************************************************************************)
(* Bounds of the model.                                                    *)
(***************************************************************************)
\* number of process_message calls explored in one behaviour
MaxProcessCalls == 1

(***************************************************************************)
(* Program constants and literals.                                         *)
(***************************************************************************)
MAX_TOOL_ROUNDS == 3

SESSION_DIR == "sessions"

SYSTEM_INSTRUCTION == "You are Gemini Gateway"

NO_RESPONSE == "I processed the request but have no additional response."

NO_SUMMARY == "I processed the request but couldn't generate a summary."

OLLAMA_FALLBACK == "I encountered an error communicating with my local brain."

GEMINI_FALLBACK == "I encountered an error processing your request."

FORCE_TEXT == "You must now respond to the user with the information gathered. Do not call any more tools."

\* the names core/tools.py registers that the model uses
RegisteredTools == {"run_command", "read_file", "web_search"}

(***************************************************************************)
(* Inputs, drawn from small sets.                                          *)
(***************************************************************************)
SessionIds == {"s1", "s/1", "t-2"}

UserMessages == {"hello"}

\* what MemoryStore.search_memory does: no store, nothing found, a hit, an exception
MemoryOutcomes == {"disabled", "empty", "hit", "raise"}

MemoryHit == "['likes tea']"

\* exception texts
BackendErrors == {"connection refused"}

ToolErrors == {"unexpected keyword argument"}

\* the tool_calls lists a backend response may carry
ToolCallLists == {<<"run_command">>, <<"read_file", "ghost_tool", "web_search">>}

\* what a registered tool does when invoked: it returns a text or it raises
ToolOutcomes(name) ==
    CASE name = "run_command" -> {[kind |-> "ret", text |-> ""]}
      [] name = "read_file" -> {[kind |-> "ret", text |-> "file data"]}
                               \cup {[kind |-> "raise", text |-> e] : e \in ToolErrors}
      [] OTHER -> {[kind |-> "ret", text |-> "search results"]}

\* what one ollama.chat call does: it raises, or returns a message
OllamaResponses ==
    {[kind |-> "raise", content |-> e, tool_calls |-> <<>>] : e \in BackendErrors}
    \cup {[kind |-> "msg", content |-> c, tool_calls |-> <<>>] : c \in {"", "hi there"}}
    \cup {[kind |-> "msg", content |-> "", tool_calls |-> tc] : tc \in ToolCallLists}

\* s repeated n times
RECURSIVE Repeat(_, _)
Repeat(s, n) ==
    IF n = 0 THEN ""
    ELSE IF n % 2 = 0 THEN Repeat(s \o s, n \div 2)
    ELSE s \o Repeat(s, n - 1)

\* tool results around the truncation threshold of send_message: a text of
\* exactly 4000 characters and one of 4001, both ending in "E"
LongTexts == {Repeat("x", 3999) \o "E", Repeat("x", 4000) \o "E"}

LongToolOutcomes(name) ==
    IF name = "web_search" THEN {[kind |-> "ret", text |-> t] : t \in LongTexts} ELSE {}

\* what one chat.send_message call of the Gemini SDK does; kind "none" is a
\* response whose .text is None
GeminiResponses ==
    {[kind |-> "raise", content |-> e] : e \in BackendErrors}
    \cup {[kind |-> "msg", content |-> c] : c \in {"", "hi there"}}
    \cup {[kind |-> "none", content |-> ""]}

(***************************************************************************)
(* Text helpers.                                                           *)
(***************************************************************************)
\* the i-th character of s
CharAt(s, i) == SubSeq(s, i, i)

\* sub occurs in s
Contains(s, sub) ==
    \E i \in 1..(Len(s) - Len(sub) + 1) : SubSeq(s, i, i + Len(sub) - 1) = sub

\* sep.join(seq)
RECURSIVE Join(_, _)
Join(seq, sep) ==
    IF seq = <<>> THEN ""
    ELSE IF Len(seq) = 1 THEN seq[1]
    ELSE seq[1] \o sep \o Join(Tail(seq), sep)

\* seq[:n]
LastN_FirstN(seq, n) ==
    IF Len(seq) <= n THEN seq ELSE SubSeq(seq, 1, n)

\* seq[-n:]
LastN(seq, n) ==
    IF Len(seq) <= n THEN seq ELSE SubSeq(seq, Len(seq) - n + 1, Len(seq))

(***************************************************************************)
(* core/session.py                                                         *)
(***************************************************************************)
\* Message(role=, content=); the timestamp is taken from the clock
Message(role, content, ts) ==
    [role |-> role, content |-> content, timestamp |-> ts]

\* one line of a .jsonl file.  kind "msg" is a dumped Message, "blank" an
\* empty line, "badjson" a line json.loads rejects, "badmsg" a JSON value
\* Message(**data) rejects
Line(kind, role, content, ts) ==
    [kind |-> kind, role |-> role, content |-> content, timestamp |-> ts]

model_dump_json(m) == Line("msg", m.role, m.content, m.timestamp)

AlnumChars ==
    {"a","b","c","d","e","f","g","h","i","j","k","l","m","n","o","p","q","r",
     "s","t","u","v","w","x","y","z","A","B","C","D","E","F","G","H","I","J",
     "K","L","M","N","O","P","Q","R","S","T","U","V","W","X","Y","Z",
     "0","1","2","3","4","5","6","7","8","9"}

\* a filter that lets dots and separators through
IsSafeChar_PathChars(c) == c \in AlnumChars \/ c \in {"-", "_", ".", "/"}

\* line 39: c.isalnum() or c in ('-','_')
IsSafeChar(c) == c \in AlnumChars \/ c \in {"-", "_"}

RECURSIVE SafeId(_, _)
SafeId(session_id, i) ==
    IF i > Len(session_id) THEN ""
    ELSE (IF IsSafeChar(CharAt(session_id, i)) THEN CharAt(session_id, i) ELSE "")
         \o SafeId(session_id, i + 1)

get_path(session_id) == SESSION_DIR \o "/" \o SafeId(session_id, 1) \o ".jsonl"

Paths == {get_path(id) : id \in SessionIds}

NoFile == [exists |-> FALSE, lines |-> <<>>]

\* the loop of load_session over the lines from position i on: blank lines
\* and lines that are not JSON are skipped; any other exception ends the loop
\* and the history read so far is kept
RECURSIVE ReadLines(_, _, _)
ReadLines(lines, i, history) ==
    IF i > Len(lines) THEN history
    ELSE CASE lines[i].kind = "blank" -> ReadLines(lines, i + 1, history)
           [] lines[i].kind = "badjson" -> ReadLines(lines, i + 1, history)
           [] lines[i].kind = "badmsg" -> history
           [] OTHER -> ReadLines(lines, i + 1,
                           Append(history, Message(lines[i].role, lines[i].content, lines[i].timestamp)))

load_session(fs, session_id) ==
    IF ~fs[get_path(session_id)].exists THEN <<>>
    ELSE ReadLines(fs[get_path(session_id)].lines, 1, <<>>)

\* the file opened with mode 'w'
save_message_Overwrite(fs, session_id, message) ==
    [fs EXCEPT ![get_path(session_id)] =
        [exists |-> TRUE, lines |-> <<model_dump_json(message)>>]]

\* open(path, 'a') and one write
save_message(fs, session_id, message) ==
    [fs EXCEPT ![get_path(session_id)] =
        [exists |-> TRUE, lines |-> Append(@.lines, model_dump_json(message))]]

\* Session.to_gemini_history
to_gemini_history(history) ==
    [i \in 1..Len(history) |->
        [role |-> IF history[i].role = "assistant" THEN "model" ELSE history[i].role,
         parts |-> <<history[i].content>>]]

(***************************************************************************)
(* core/tools.py                                                           *)
(***************************************************************************)
NoTool == "None"

\* a lookup that falls back to a default tool
get_tool_Default(name) == IF name \in RegisteredTools THEN name ELSE "run_command"

\* ToolRegistry.get_tool: self.tools.get(name)
get_tool(name) == IF name \in RegisteredTools THEN name ELSE NoTool

(***************************************************************************)
(* core/ollama_client.py: the pieces of OllamaClient.send_message          *)
(***************************************************************************)
\* one entry of the messages list given to ollama.chat
ChatMessage(role, content, tcalls) ==
    [role |-> role, content |-> content, tool_calls |-> tcalls]

\* lines 73-83: the system instruction, then the session history
PrepareMessages(history) ==
    (IF SYSTEM_INSTRUCTION # "" THEN <<ChatMessage("system", SYSTEM_INSTRUCTION, <<>>)>> ELSE <<>>)
    \o [i \in 1..Len(history) |->
          ChatMessage(IF history[i].role = "model" THEN "assistant" ELSE history[i].role,
                      history[i].content, <<>>)]

\* the while loop with one round too many
LoopContinues_OneMore(r) == r <= MAX_TOOL_ROUNDS + 1

\* line 89: the condition of the while loop
LoopContinues(r) == r <= MAX_TOOL_ROUNDS

\* tools offered on every round of the loop
use_tools_EveryRound(r) == r <= MAX_TOOL_ROUNDS

\* line 92: tools are offered on this round
use_tools(r) == r < MAX_TOOL_ROUNDS

\* line 113: the answer of a response without tool calls
FinalAnswer(response_content) ==
    IF response_content # "" THEN response_content ELSE NO_RESPONSE

\* line 128: the registered function is called
Invokes(name) == get_tool(name) # NoTool

\* the error text of a raising tool without the exception's text
ToolResult_NoReason(name, outcome) ==
    IF Invokes(name)
    THEN (IF outcome.kind = "raise"
          THEN "Error executing tool " \o name
          ELSE outcome.text)
    ELSE "Error: Tool " \o name \o " not found."

\* lines 127-134: the result of one tool call
ToolResult(name, outcome) ==
    IF Invokes(name)
    THEN (IF outcome.kind = "raise"
          THEN "Error executing tool " \o name \o ": " \o outcome.text
          ELSE outcome.text)
    ELSE "Error: Tool " \o name \o " not found."

\* line 138: the threshold
TRUNCATE_AT == 4000

TRUNCATION_MARKER == "\n\n[... truncated for length. Present the above results to the user.]"

\* the truncation applied to results of exactly the threshold length
Truncate_AtThreshold(result_str) ==
    IF Len(result_str) >= TRUNCATE_AT
    THEN SubSeq(result_str, 1, TRUNCATE_AT) \o TRUNCATION_MARKER
    ELSE result_str

\* lines 136-140
Truncate(result_str) ==
    IF Len(result_str) > TRUNCATE_AT
    THEN SubSeq(result_str, 1, TRUNCATE_AT) \o TRUNCATION_MARKER
    ELSE result_str

\* line 166: the contents of the tool messages of the transcript
RECURSIVE ToolResultsOf(_)
ToolResultsOf(msgs) ==
    IF msgs = <<>> THEN <<>>
    ELSE (IF Head(msgs).role = "tool" THEN <<Head(msgs).content>> ELSE <<>>)
         \o ToolResultsOf(Tail(msgs))

\* the fallback built from the last tool result alone
ForcedAnswer_LastOne(final_content, msgs) ==
    IF final_content # "" THEN final_content
    ELSE IF ToolResultsOf(msgs) # <<>> THEN Join(LastN(ToolResultsOf(msgs), 1), "\n\n")
    ELSE NO_SUMMARY

\* lines 161-167: the answer after the forced text-only call
ForcedAnswer(final_content, msgs) ==
    IF final_content # "" THEN final_content
    ELSE IF ToolResultsOf(msgs) # <<>> THEN Join(LastN(ToolResultsOf(msgs), 2), "\n\n")
    ELSE NO_SUMMARY

\* the forced call placed after the try block
InTry_LoopOnly(site) == site = "loop"

\* lines 86 and 173: the ollama.chat call at this site ("loop" or "forced")
\* is inside the try block
InTry(site) == site \in {"loop", "forced"}

\* the failure message added under the user's role
ErrorRole_User == "user"

\* line 177: the role and the content of the message added on failure
ErrorRole == "assistant"

ErrorContent(fallback, e) == fallback \o " (Debug: " \o e \o ")"

(***************************************************************************)
(* core/agent.py                                                           *)
(***************************************************************************)
\* lines 16-35: the content handed to send_message
WithContext(user_message, mem) ==
    IF mem = "hit"
    THEN "Context: " \o MemoryHit \o "\n\nUser: " \o user_message
    ELSE user_message

\* lines 51-54: the messages process_message saves, in order
SavedMessages(history) ==
    IF Len(history) >= 2
    THEN <<history[Len(history) - 1], history[Len(history)]>>
    ELSE <<>>

(***************************************************************************)
(* State.                                                                  *)
(***************************************************************************)
VARIABLES
    files,        \* path -> [exists, lines]: the session directory
    clock,        \* time.time(), counted in message creations
    client,       \* which client the agent holds: "ollama" or "gemini"
    ncalls,       \* process_message calls started
    pc,           \* position of the process_message call in flight
    sid,          \* its session_id
    user_message, \* its user_message
    content,      \* user_message_with_context
    history,      \* session.history of the loaded Session
    messages,     \* send_message: the transcript
    round_num,    \* send_message: round_num
    tool_calls,   \* send_message: tool_calls of the last response
    tool_idx,     \* send_message: position in the for loop over tool_calls
    calls,        \* backend calls made by this send_message
    request,      \* the arguments of the last backend call
    round_log,    \* the tool calls handled in the current round, with outcome
    invoked,      \* the functions called by this send_message: [name requested, func called]
    last_resp,    \* the last backend response
    outcome,      \* how send_message ended: "text", "exhausted" or "error"
    returned,     \* the text returned
    saved,        \* process_message: how many of the messages to save are written
    log0,         \* the lines of the session's file when the call started
    store_op,     \* the last direct call of a SessionStore method, with its result
    pool,         \* the fields of the BrowserPool object
    loops,        \* the event loops created so far, each with its thread: their state
    tasks,        \* the coroutines handed to run_coroutine_threadsafe
    threads,      \* the threads that call the BrowserPool: position and last result
    chromium,     \* the Playwright drivers, browsers and pages that were started
    pool_hist,    \* what the callers have observed of the BrowserPool so far
    web,          \* the WebMCPClient: its _tool_cache and the call in progress
    sched         \* the Scheduler: its running flag and the threads it started

vars == <<files, clock, client, ncalls, pc, sid, user_message, content, history,
          messages, round_num, tool_calls, tool_idx, calls, request, round_log,
          invoked, last_resp, outcome, returned, saved, log0, store_op,
          pool, loops, tasks, threads, chromium, pool_hist, web, sched>>

\* the state of the agent and of its session files
agentVars == <<files, clock, client, ncalls, pc, sid, user_message, content, history,
               messages, round_num, tool_calls, tool_idx, calls, request, round_log,
               invoked, last_resp, outcome, returned, saved, log0>>

\* the state of the BrowserPool and of its callers
poolVars == <<pool, loops, tasks, threads, chromium, pool_hist>>

\* the state process_message does not touch
otherVars == <<store_op, poolVars, web, sched>>

sendLocals == <<messages, round_num, tool_calls, tool_idx>>

NoRequest == [messages |-> <<>>, tools |-> FALSE]

NoResponse == [kind |-> "none", content |-> "", tool_calls |-> <<>>]

\* session files that exist before the program starts
PriorFiles ==
    {NoFile,
     [exists |-> TRUE, lines |-> <<Line("msg", "assistant", "welcome", 1)>>],
     [exists |-> TRUE, lines |-> <<Line("msg", "user", "earlier question", 1),
                                   Line("msg", "assistant", "earlier answer", 2)>>]}

MaxOf(S) == CHOOSE x \in S : \A y \in S : y <= x

\* the largest timestamp stored in the session directory
LastTimestamp(fs) ==
    MaxOf({0} \cup UNION {{fs[p].lines[i].timestamp : i \in 1..Len(fs[p].lines)} : p \in DOMAIN fs})

(***************************************************************************)
(* browser_pool.py: the BrowserPool object, its event loops and what it    *)
(* starts through Playwright.                                              *)
(***************************************************************************)
\* the threads that share the BrowserPool
Threads == {"t1", "t2"}

\* the URLs of the pages, in the order of the keys of _pages
URLSeq == <<"u1", "u2">>

URLs == {URLSeq[i] : i \in 1..Len(URLSeq)}

\* BrowserPool.__init__; 0 stands for None, pages[u] = 0 for a url not in _pages
NewPool ==
    [playwright |-> 0, browser |-> 0, pages |-> [u \in URLs |-> 0], lock |-> "free",
     loop |-> 0, thread |-> 0, initialized |-> FALSE]

\* loop.is_running(): true once the loop's thread has entered run_forever
is_running(ls, l) == ls[l] = "running"

\* _ensure_event_loop: a new loop and thread unless the current loop runs
ensure_event_loop(p, ls) ==
    IF p.loop # 0 /\ is_running(ls, p.loop)
    THEN [pool |-> p, loops |-> ls]
    ELSE [pool |-> [p EXCEPT !.loop = Len(ls) + 1, !.thread = Len(ls) + 1],
          loops |-> Append(ls, "starting")]

\* a coroutine object before it is scheduled
Coroutine(kind, url, force_new, page) ==
    [kind |-> kind, url |-> url, force_new |-> force_new, page |-> page,
     loop |-> 0, step |-> "start", status |-> "pending", value |-> 0,
     browser |-> 0, playwright |-> 0, keys |-> <<>>]

\* _run_async up to the wait: the loop is ensured and the coroutine is
\* scheduled on self._loop
run_coroutine_threadsafe(p, ls, ts, coro) ==
    LET e == ensure_event_loop(p, ls)
    IN [pool |-> e.pool, loops |-> e.loops,
        tasks |-> Append(ts, [coro EXCEPT !.loop = e.pool.loop])]

\* leaving "with self._lock", normally or by an exception
ExitLock_KeepOnRaise(p, t, raised) ==
    IF p.lock = t /\ ~raised THEN [p EXCEPT !.lock = "free"] ELSE p

ExitLock(p, t, raised) ==
    IF p.lock = t THEN [p EXCEPT !.lock = "free"] ELSE p

\* a thread that is not inside a BrowserPool method
IdleThread == [pc |-> "idle", op |-> "none", url |-> "", force_new |-> FALSE, page |-> 0,
               task |-> 0, status |-> "none", value |-> 0, held |-> 0,
               after_close |-> FALSE, after_timeout |-> FALSE]

\* nothing was started through Playwright yet
NoChromium == [playwrights |-> <<>>, browsers |-> <<>>, pages |-> <<>>]

\* no BrowserPool method was called yet
NoPoolHist == [n |-> 0, close_called |-> FALSE, closed |-> FALSE, loops_at_close |-> 0,
               launches_at_close |-> 0, timeouts |-> 0, closes |-> <<>>]

\* a fresh BrowserPool, as webmcp.py creates it
InitPool ==
    /\ pool = NewPool
    /\ loops = <<>>
    /\ tasks = <<>>
    /\ threads = [t \in Threads |-> IdleThread]
    /\ chromium = NoChromium
    /\ pool_hist = NoPoolHist

(***************************************************************************)
(* webmcp.py: the pages, the two scripts that WebMCPClient evaluates on    *)
(* them and the WebMCPClient object.                                       *)
(***************************************************************************)
\* what the page at a url holds: the tools of navigator.modelContext with
\* the kind of their handler, the mcp-tool meta tags, the elements with a
\* data-mcp-tool attribute in document order and the JSON-LD actions
SiteOf(url) ==
    IF url = "u1"
    THEN [url |-> "u1", title |-> "shop", modelContext |-> TRUE,
          native |-> <<[name |-> "search", handler |-> "returns"],
                       [name |-> "broken", handler |-> "throws"],
                       [name |-> "info", handler |-> "none"]>>,
          meta |-> <<"feed">>,
          elements |-> <<[name |-> "signup", tag |-> "FORM"],
                         [name |-> "box", tag |-> "DIV"],
                         [name |-> "broken", tag |-> "FORM"],
                         [name |-> "info", tag |-> "A"]>>,
          jsonld |-> <<"SearchAction">>]
    ELSE [url |-> url, title |-> "plain", modelContext |-> FALSE,
          native |-> <<>>, meta |-> <<>>, elements |-> <<>>, jsonld |-> <<>>]

\* the tool names that execute_tool is called with
ToolNames == {"search", "broken", "info", "signup", "box", "ghost"}

\* the url and tool name that execute_tool is called with
ExecuteInputs == {<<"u1", name>> : name \in ToolNames} \cup {<<"u2", "search">>}

\* the discovered tools of one layer
Layer(names, source) == [i \in 1..Len(names) |-> [name |-> names[i], source |-> source]]

NamesOf(s) == [i \in 1..Len(s) |-> s[i].name]

\* DISCOVER_TOOLS_JS: the four layers are concatenated
DISCOVER_TOOLS_JS(site) ==
    LET tools == (IF site.modelContext
                  THEN Layer(NamesOf(site.native), "navigator.modelContext") ELSE <<>>)
                 \o Layer(site.meta, "meta-tag")
                 \o Layer(NamesOf(site.elements), "data-attribute")
                 \o Layer(site.jsonld, "json-ld")
    IN [hasWebMCP |-> Len(tools) > 0, toolCount |-> Len(tools), tools |-> tools,
        url |-> site.url, title |-> site.title]

\* Array.find and querySelector: the first entry with the name, 0 if none
FirstNamed(s, name) ==
    IF \E i \in 1..Len(s) : s[i].name = name
    THEN CHOOSE i \in 1..Len(s) : s[i].name = name /\ \A j \in 1..(i - 1) : s[j].name # name
    ELSE 0

NotFoundError(toolName) ==
    "Tool \"" \o toolName \o "\" not found or not executable on this page"

exec_js_ElementFirst(site, toolName) ==
    LET e == FirstNamed(site.elements, toolName)
    IN IF e # 0 /\ site.elements[e].tag = "FORM"
       THEN [result |-> [success |-> TRUE, result |-> "Form submitted",
                         source |-> "data-attribute"],
             did |-> "submit"]
       ELSE [result |-> [success |-> FALSE, error |-> NotFoundError(toolName)],
             did |-> "nothing"]

exec_js_NoOp(site, toolName) ==
    [result |-> [success |-> TRUE, result |-> "Element clicked", source |-> "data-attribute"],
     did |-> "nothing"]

\* exec_js on the page: what it returns, and what it did on the page
exec_js(site, toolName) ==
    LET i == IF site.modelContext THEN FirstNamed(site.native, toolName) ELSE 0
        e == FirstNamed(site.elements, toolName)
    IN IF i # 0 /\ site.native[i].handler # "none"
       THEN IF site.native[i].handler = "returns"
            THEN [result |-> [success |-> TRUE, result |-> "handler result",
                              source |-> "navigator.modelContext"],
                  did |-> "handler"]
            ELSE [result |-> [success |-> FALSE, error |-> "handler error",
                              source |-> "navigator.modelContext"],
                  did |-> "handler"]
       ELSE IF e # 0 /\ site.elements[e].tag = "FORM"
       THEN [result |-> [success |-> TRUE, result |-> "Form submitted",
                         source |-> "data-attribute"],
             did |-> "submit"]
       ELSE IF e # 0 /\ site.elements[e].tag \in {"BUTTON", "A"}
       THEN [result |-> [success |-> TRUE, result |-> "Element clicked",
                         source |-> "data-attribute"],
             did |-> "click"]
       ELSE [result |-> [success |-> FALSE, error |-> NotFoundError(toolName)],
             did |-> "nothing"]

\* str(e) of the exception that a BrowserPool method raised: TimeoutError()
\* of future.result has no text
ErrorText(status) == IF status = "timeout" THEN "" ELSE "playwright error"

\* discover_tools lines 222-231: the result of a failed discovery
DiscoverFailure(url, status) ==
    [hasWebMCP |-> FALSE, toolCount |-> 0, tools |-> <<>>, url |-> url, title |-> "",
     fromCache |-> FALSE, error |-> ErrorText(status)]

\* discover_tools lines 207-210: the result of the script is stored and
\* returned; tool_cache[url] is <<>> for a url not in _tool_cache
DiscoverSuccess(url, scan) ==
    [hasWebMCP |-> scan.hasWebMCP, toolCount |-> scan.toolCount, tools |-> scan.tools,
     url |-> scan.url, title |-> scan.title, fromCache |-> FALSE]

\* execute_tool lines 298-299
ExecuteFailure(status) == [success |-> FALSE, error |-> ErrorText(status)]

\* no WebMCPClient method has returned yet
NoWebCall == [op |-> "none", url |-> "", force |-> FALSE, name |-> "", raised |-> FALSE,
              failed |-> "no", did |-> "nothing", pool_calls |-> 0,
              start_pages |-> 0, end_pages |-> 0, result |-> <<>>]

\* WebMCPClient.__init__, with no call in progress
NewClient ==
    [tool_cache |-> [u \in URLs |-> <<>>], stage |-> "idle", n |-> 0,
     call |-> NoWebCall, start_calls |-> 0, last |-> NoWebCall, prev |-> NoWebCall]

InitWeb == web = NewClient

(***************************************************************************)
(* scheduler.py: the Scheduler object.  threads holds, for every thread    *)
(* that start() created, where it is in _run: at the test of the while     *)
(* loop ("test"), in schedule.run_pending ("run_pending"), in time.sleep   *)
(* ("sleep"), or returned ("exited").                                      *)
(***************************************************************************)
\* Scheduler.__init__; thread is 0 before the first start()
NewScheduler == [running |-> FALSE, thread |-> 0, threads |-> <<>>, n |-> 0]

InitScheduler == sched = NewScheduler

\* no SessionStore method was called directly yet
NoStoreOp ==
    [op |-> "none", n |-> 0, id |-> "", msg |-> Message("", "", 0), pre |-> <<>>, log |-> <<>>, result |-> <<>>]

\* no process_message call was made yet
InitCall ==
    /\ ncalls = 0
    /\ pc = "idle"
    /\ sid = ""
    /\ user_message = ""
    /\ content = ""
    /\ history = <<>>
    /\ messages = <<>>
    /\ round_num = 0
    /\ tool_calls = <<>>
    /\ tool_idx = 0
    /\ calls = 0
    /\ request = NoRequest
    /\ round_log = <<>>
    /\ invoked = <<>>
    /\ last_resp = NoResponse
    /\ outcome = "none"
    /\ returned = ""
    /\ saved = 0
    /\ log0 = <<>>

Init ==
    /\ files \in [Paths -> PriorFiles]
    /\ clock = LastTimestamp(files) + 1
    /\ client \in {"ollama", "gemini"}
    /\ InitCall
    /\ store_op = NoStoreOp
    /\ InitScheduler
    /\ InitPool
    /\ InitWeb

(***************************************************************************)
(* core/gemini.py                                                          *)
(***************************************************************************)
\* lines 34-42: everything but the last message of the converted history
GeminiApiHistory(hist) ==
    IF Len(to_gemini_history(hist)) > 1
    THEN SubSeq(to_gemini_history(hist), 1, Len(hist) - 1)
    ELSE <<>>

\* line 67 with response.text = None: what pydantic says
VALIDATION_ERROR == "Input should be a valid string"

(***************************************************************************)
(* Actions.                                                                *)
(***************************************************************************)
\* send_message adds a message to the session and returns `text`
ReturnFromSend(role, msg_content, text, how) ==
    /\ history' = Append(history, Message(role, msg_content, clock))
    /\ clock' = clock + 1
    /\ returned' = text
    /\ outcome' = how
    /\ pc' = "save"

\* a backend call raised e at `site`: the except branch, when the call is
\* inside the try block; otherwise the exception leaves process_message
BackendFailed(site, fallback, e) ==
    IF InTry(site)
    THEN ReturnFromSend(ErrorRole, ErrorContent(fallback, e), fallback, "error")
    ELSE /\ pc' = "crashed"
         /\ UNCHANGED <<history, clock, returned, outcome>>

\* GeminiAgent.process_message up to the first backend call: load the
\* session, retrieve memory, enter send_message and prepare its request
ProcessMessage(id, m, mem) ==
    /\ pc \in {"idle", "done"}
    /\ ncalls < MaxProcessCalls
    /\ ncalls' = ncalls + 1
    /\ sid' = id
    /\ user_message' = m
    /\ content' = WithContext(m, mem)
    /\ history' = load_session(files, id)
    /\ log0' = files[get_path(id)].lines
    /\ messages' = IF client = "ollama" THEN PrepareMessages(history')
                   ELSE GeminiApiHistory(history')
    /\ pc' = IF client = "ollama"
             THEN (IF LoopContinues(0) THEN "chat" ELSE "forced")
             ELSE "gemini_chat"
    /\ round_num' = 0
    /\ tool_calls' = <<>>
    /\ tool_idx' = 0
    /\ calls' = 0
    /\ request' = NoRequest
    /\ round_log' = <<>>
    /\ invoked' = <<>>
    /\ last_resp' = NoResponse
    /\ outcome' = "none"
    /\ returned' = ""
    /\ saved' = 0
    /\ UNCHANGED otherVars
    /\ UNCHANGED <<files, clock, client>>

\* OllamaClient.send_message, lines 89-119: one ollama.chat call of the loop
\* and what the loop does with the response
OllamaChat ==
    /\ pc = "chat"
    /\ \E resp \in OllamaResponses :
        /\ calls' = calls + 1
        /\ request' = [messages |-> messages, tools |-> use_tools(round_num)]
        /\ last_resp' = resp
        /\ IF resp.kind = "raise"
           THEN /\ BackendFailed("loop", OLLAMA_FALLBACK, resp.content)
                /\ UNCHANGED <<messages, tool_calls, tool_idx, round_log>>
           ELSE IF resp.tool_calls = <<>>
           THEN /\ ReturnFromSend("assistant", FinalAnswer(resp.content),
                                  FinalAnswer(resp.content), "text")
                /\ UNCHANGED <<messages, tool_calls, tool_idx, round_log>>
           ELSE /\ messages' = Append(messages, ChatMessage("assistant", resp.content, resp.tool_calls))
                /\ tool_calls' = resp.tool_calls
                /\ tool_idx' = 1
                /\ round_log' = <<>>
                /\ pc' = "tool"
                /\ UNCHANGED <<history, clock, returned, outcome>>
    /\ UNCHANGED otherVars
    /\ UNCHANGED <<files, client, ncalls, sid, user_message, content, round_num,
                   invoked, saved, log0>>

\* the list taken from its end
ToolAt_Backwards(tcs, i) == tcs[Len(tcs) + 1 - i]

\* line 121: the i-th tool call the for loop takes from tool_calls
ToolAt(tcs, i) == tcs[i]

\* lines 121-147: one iteration of the for loop over tool_calls; after the
\* last one round_num is incremented and the while condition is tested
ToolCallFrom(long) ==
    /\ pc = "tool"
    /\ LET name == ToolAt(tool_calls, tool_idx)
           func == get_tool(name)
       IN \E o \in (IF Invokes(name)
                        THEN (IF long THEN LongToolOutcomes(func) ELSE ToolOutcomes(func))
                    ELSE {[kind |-> "notfound", text |-> ""]}) :
            /\ messages' = Append(messages, ChatMessage("tool", Truncate(ToolResult(name, o)), <<>>))
            /\ invoked' = IF Invokes(name) THEN Append(invoked, [name |-> name, func |-> func]) ELSE invoked
            /\ round_log' = Append(round_log, [name |-> name, kind |-> o.kind, text |-> o.text])
    /\ IF tool_idx < Len(tool_calls)
       THEN /\ tool_idx' = tool_idx + 1
            /\ UNCHANGED <<round_num, pc>>
       ELSE /\ round_num' = round_num + 1
            /\ pc' = IF LoopContinues(round_num + 1) THEN "chat" ELSE "forced"
            /\ UNCHANGED tool_idx
    /\ UNCHANGED otherVars
    /\ UNCHANGED <<files, clock, client, ncalls, sid, user_message, content, history,
                   tool_calls, calls, request, last_resp, outcome, returned, saved, log0>>

ToolCall == ToolCallFrom(FALSE)

\* the same step for a tool whose result is around the truncation threshold
ToolCallLong == ToolCallFrom(TRUE)

\* lines 149-171: the forced text-only call after the loop
ForcedCall ==
    /\ pc = "forced"
    /\ messages' = Append(messages, ChatMessage("system", FORCE_TEXT, <<>>))
    /\ \E resp \in OllamaResponses :
        /\ calls' = calls + 1
        /\ request' = [messages |-> messages', tools |-> FALSE]
        /\ last_resp' = resp
        /\ IF resp.kind = "raise"
           THEN BackendFailed("forced", OLLAMA_FALLBACK, resp.content)
           ELSE ReturnFromSend("assistant", ForcedAnswer(resp.content, messages'),
                               ForcedAnswer(resp.content, messages'), "exhausted")
    /\ UNCHANGED otherVars
    /\ UNCHANGED <<files, client, ncalls, sid, user_message, content, round_num,
                   tool_calls, tool_idx, round_log, invoked, saved, log0>>

\* GeminiClient.send_message, lines 55-79
GeminiChat ==
    /\ pc = "gemini_chat"
    /\ \E resp \in GeminiResponses :
        /\ calls' = calls + 1
        /\ request' = [messages |-> Append(messages, [role |-> "user", parts |-> <<content>>]),
                       tools |-> TRUE]
        /\ last_resp' = [kind |-> resp.kind, content |-> resp.content, tool_calls |-> <<>>]
        /\ IF resp.kind = "raise"
           THEN BackendFailed("loop", GEMINI_FALLBACK, resp.content)
           ELSE IF resp.kind = "none"
           THEN BackendFailed("loop", GEMINI_FALLBACK, VALIDATION_ERROR)
           ELSE ReturnFromSend("assistant", resp.content, resp.content, "text")
    /\ UNCHANGED otherVars
    /\ UNCHANGED <<files, client, ncalls, sid, user_message, content, messages, round_num,
                   tool_calls, tool_idx, round_log, invoked, saved, log0>>

\* process_message, lines 51-56: one save_message call, or the return when
\* nothing is left to save
Save ==
    /\ pc = "save"
    /\ IF saved < Len(SavedMessages(history))
       THEN /\ files' = save_message(files, sid, SavedMessages(history)[saved + 1])
            /\ saved' = saved + 1
            /\ UNCHANGED pc
       ELSE /\ pc' = "done"
            /\ UNCHANGED <<files, saved>>
    /\ UNCHANGED otherVars
    /\ UNCHANGED <<clock, client, ncalls, sid, user_message, content, history, messages,
                   round_num, tool_calls, tool_idx, calls, request, round_log, invoked,
                   last_resp, outcome, returned, log0>>

Next ==
    \/ \E id \in SessionIds, m \in UserMessages, mem \in MemoryOutcomes : ProcessMessage(id, m, mem)
    \/ OllamaChat
    \/ ToolCall
    \/ ForcedCall
    \/ GeminiChat
    \/ Save

Spec == Init /\ [][Next]_vars

(***************************************************************************)
(* The SessionStore called directly, next to process_message calls of an   *)
(* agent that holds the Gemini client, on a session directory that may     *)
(* hold damaged files.                                                     *)
(***************************************************************************)
\* number of direct SessionStore calls explored in one behaviour
MaxStoreCalls == 2

StoreIds == {"s1", "../s1", "..\\t-2/x"}

StorePaths == {get_path(id) : id \in StoreIds}

StoreRoles == {"user", "assistant"}

\* one damaged line among two valid ones, at each position
DamagedFiles ==
    {[exists |-> TRUE,
      lines |-> [i \in 1..3 |->
                   IF i = k THEN Line(bad, "", "", 0)
                   ELSE Line("msg", IF i = 3 \/ (i = 2 /\ k = 3) THEN "assistant" ELSE "user",
                             "kept", i)]] :
        k \in 1..3, bad \in {"badjson", "badmsg"}}

PriorStoreFiles ==
    {NoFile,
     [exists |-> TRUE, lines |-> <<Line("msg", "user", "earlier question", 1),
                                   Line("blank", "", "", 0),
                                   Line("msg", "assistant", "earlier answer", 2)>>]}
    \cup DamagedFiles

InitStore ==
    /\ \E f \in PriorStoreFiles :
          files = [p \in StorePaths |-> IF p = get_path("s1") THEN f ELSE NoFile]
    /\ clock = LastTimestamp(files) + 1
    /\ client = "gemini"
    /\ InitCall
    /\ store_op = NoStoreOp
    /\ InitScheduler
    /\ InitPool
    /\ InitWeb

\* a caller creates Message(role, content) and calls save_message(id, msg)
SaveMessageCall(id, role, text) ==
    /\ pc \in {"idle", "done"}
    /\ store_op.n < MaxStoreCalls
    /\ files' = save_message(files, id, Message(role, text, clock))
    /\ clock' = clock + 1
    /\ store_op' = [op |-> "save", n |-> store_op.n + 1, id |-> id,
                     msg |-> Message(role, text, clock),
                     pre |-> load_session(files, id),
                     log |-> save_message(files, id, Message(role, text, clock))[get_path(id)].lines,
                     result |-> <<>>]
    /\ UNCHANGED <<client, ncalls, pc, sid, user_message, content, history, messages,
                   round_num, tool_calls, tool_idx, calls, request, round_log, invoked,
                   last_resp, outcome, returned, saved, log0, poolVars, web, sched>>

\* a caller calls load_session(id); log is the content of the file it reads;
\* op "save_load" marks a load that directly follows a save_message of the
\* same id
LoadSessionCall(id) ==
    /\ pc \in {"idle", "done"}
    /\ store_op.n < MaxStoreCalls
    /\ store_op' = IF /\ store_op.op = "save"
                      /\ store_op.id = id
                      /\ store_op.log = files[get_path(id)].lines
                   THEN [store_op EXCEPT !.op = "save_load", !.n = @ + 1,
                                         !.result = load_session(files, id)]
                   ELSE [op |-> "load", n |-> store_op.n + 1, id |-> id,
                         msg |-> Message("", "", 0),
                         pre |-> <<>>, log |-> files[get_path(id)].lines,
                         result |-> load_session(files, id)]
    /\ UNCHANGED <<agentVars, poolVars, web, sched>>

NextStore ==
    \/ \E id \in StoreIds, role \in StoreRoles : SaveMessageCall(id, role, "note")
    \/ \E id \in StoreIds : LoadSessionCall(id)
    \/ \E id \in StoreIds, m \in UserMessages : ProcessMessage(id, m, "disabled")
    \/ GeminiChat
    \/ Save

SpecStore == InitStore /\ [][NextStore]_vars

(***************************************************************************)
(* OllamaClient.send_message with tool results around the truncation       *)
(* threshold, on a fresh session directory.                                *)
(***************************************************************************)
InitLong ==
    /\ Init
    /\ client = "ollama"
    /\ files = [p \in Paths |-> NoFile]

NextLong ==
    \/ \E m \in UserMessages : ProcessMessage("s1", m, "empty")
    \/ OllamaChat
    \/ ToolCall
    \/ ToolCallLong
    \/ ForcedCall
    \/ Save

SpecLong == InitLong /\ [][NextLong]_vars

(***************************************************************************)
(* BrowserPool: the callers' threads.  A method runs up to the point where *)
(* it blocks (on _lock, or in future.result) in one step.                  *)
(***************************************************************************)
MaxPoolCalls == 2

\* the URLs that get_page is called with
GetPageURLs == {"u1"}

\* the object fields and the state of the loops they refer to
PoolState == [pool |-> pool, loops |-> loops]

\* the number of chromium launches so far
Launches == Len(chromium.browsers)

\* a new call by thread t
Enter(t, op, url, force_new, page, to_pc, task) ==
    [threads EXCEPT ![t] = [@ EXCEPT !.pc = to_pc, !.op = op, !.url = url,
                                     !.force_new = force_new, !.page = page,
                                     !.task = task, !.status = "none", !.value = 0,
                                     !.after_close = pool_hist.closed,
                                     !.after_timeout = pool_hist.timeouts > 0]]

\* the history after a call of a method other than close
Called(h) == [h EXCEPT !.n = @ + 1, !.closes = <<>>]

\* thread t returns from its call, or raises out of it
Leave(t, status, value) ==
    [threads EXCEPT ![t] = [@ EXCEPT !.pc = "idle", !.task = 0, !.status = status,
                                     !.value = value, !.url = "", !.force_new = FALSE,
                                     !.page = 0,
                                     !.held = IF threads[t].op = "get_page" /\ status = "ok"
                                              THEN value ELSE @]]

\* another BrowserPool method may be called directly
MorePoolCalls == pool_hist.n < MaxPoolCalls

\* get_page(url, force_new) is called: _ensure_browser comes first
get_page(t, url, force_new) ==
    /\ threads[t].pc = "idle"
    /\ threads' = Enter(t, "get_page", url, force_new, 0, "ensure_browser", 0)
    /\ pool_hist' = Called(pool_hist)
    /\ UNCHANGED <<pool, loops, tasks, chromium, agentVars, store_op, sched>>

\* a thread calls get_page directly
GetPage(t, url, force_new) ==
    /\ MorePoolCalls
    /\ get_page(t, url, force_new)
    /\ UNCHANGED web

\* _ensure_browser: with the lock taken, an uninitialized pool schedules
\* _async_init and waits for it with the lock held; an initialized one
\* goes on to schedule the operation
EnsureBrowser(t) ==
    /\ threads[t].pc = "ensure_browser"
    /\ pool.lock = "free"
    /\ IF pool.initialized
       THEN /\ threads' = [threads EXCEPT ![t].pc = "run_async"]
            /\ UNCHANGED <<pool, loops, tasks>>
       ELSE LET r == run_coroutine_threadsafe(pool, loops, tasks,
                                              Coroutine("init", "", FALSE, 0))
            IN /\ pool' = [r.pool EXCEPT !.lock = t]
               /\ loops' = r.loops
               /\ tasks' = r.tasks
               /\ threads' = [threads EXCEPT ![t].pc = "wait_init", ![t].task = Len(r.tasks)]
    /\ UNCHANGED <<chromium, pool_hist, agentVars, store_op, sched, web>>

\* get_page line 93: _run_async(self._async_get_page(url, force_new))
RunGetPage(t) ==
    /\ threads[t].pc = "run_async"
    /\ LET r == run_coroutine_threadsafe(pool, loops, tasks,
                    Coroutine("get_page", threads[t].url, threads[t].force_new, 0))
       IN /\ pool' = r.pool
          /\ loops' = r.loops
          /\ tasks' = r.tasks
          /\ threads' = [threads EXCEPT ![t].pc = "wait", ![t].task = Len(r.tasks)]
    /\ UNCHANGED <<chromium, pool_hist, agentVars, store_op, sched, web>>

\* close_page(url): a coroutine is scheduled only for a url in _pages
close_page(t, url) ==
    /\ threads[t].pc = "idle"
    /\ pool_hist' = Called(pool_hist)
    /\ IF pool.pages[url] # 0
       THEN LET r == run_coroutine_threadsafe(pool, loops, tasks,
                                              Coroutine("close_page", url, FALSE, 0))
            IN /\ pool' = r.pool
               /\ loops' = r.loops
               /\ tasks' = r.tasks
               /\ threads' = Enter(t, "close_page", url, FALSE, 0, "wait", Len(r.tasks))
       ELSE /\ threads' = [Enter(t, "close_page", url, FALSE, 0, "idle", 0)
                             EXCEPT ![t].status = "noop", ![t].url = ""]
            /\ UNCHANGED <<pool, loops, tasks>>
    /\ UNCHANGED <<chromium, agentVars, store_op, sched>>

\* a thread calls close_page directly
ClosePage(t, url) ==
    /\ MorePoolCalls
    /\ close_page(t, url)
    /\ UNCHANGED web

\* evaluate(page, script) with a page that get_page returned to the thread
evaluate(t) ==
    /\ threads[t].pc = "idle"
    /\ threads[t].held # 0
    /\ pool_hist' = Called(pool_hist)
    /\ LET r == run_coroutine_threadsafe(pool, loops, tasks,
                                         Coroutine("evaluate", "", FALSE, threads[t].held))
       IN /\ pool' = r.pool
          /\ loops' = r.loops
          /\ tasks' = r.tasks
          /\ threads' = Enter(t, "evaluate", "", FALSE, threads[t].held, "wait", Len(r.tasks))
    /\ UNCHANGED <<chromium, agentVars, store_op, sched>>

\* a thread calls evaluate directly
Evaluate(t) ==
    /\ MorePoolCalls
    /\ evaluate(t)
    /\ UNCHANGED web

\* close() lines 141-145: _async_close is scheduled if the pool is
\* initialized and has a loop
close(t) ==
    /\ threads[t].pc = "idle"
    /\ pool_hist' = [pool_hist EXCEPT !.n = @ + 1, !.close_called = TRUE]
    /\ IF pool.initialized /\ pool.loop # 0
       THEN LET r == run_coroutine_threadsafe(pool, loops, tasks,
                                              Coroutine("close", "", FALSE, 0))
            IN /\ pool' = r.pool
               /\ loops' = r.loops
               /\ tasks' = r.tasks
               /\ threads' = Enter(t, "close", "", FALSE, 0, "wait", Len(r.tasks))
       ELSE /\ threads' = Enter(t, "close", "", FALSE, 0, "close_stop", 0)
            /\ UNCHANGED <<pool, loops, tasks>>
    /\ UNCHANGED <<chromium, agentVars, store_op, sched>>

\* a thread calls close directly
Close(t) ==
    /\ MorePoolCalls
    /\ close(t)
    /\ UNCHANGED web

\* the coroutine has finished
Finished(k) == tasks[k].status \in {"done", "failed"}

\* the coroutines of ts that are still scheduled or whose future a thread
\* of th waits for: the others are garbage
Live(ts, th) ==
    {k \in 1..Len(ts) :
        ~(ts[k].status \in {"done", "failed"} /\ \A t \in Threads : th[t].task # k)}

\* the position of coroutine k among those of K
Rank(K, k) == Cardinality({j \in K : j <= k})

\* the coroutines and the threads once the garbage is collected
Collect(ts, th) ==
    LET K == Live(ts, th)
    IN /\ tasks' = [i \in 1..Cardinality(K) |-> ts[CHOOSE k \in K : Rank(K, k) = i]]
       /\ threads' = [t \in Threads |->
                        IF th[t].task = 0 THEN th[t]
                        ELSE [th[t] EXCEPT !.task = Rank(K, th[t].task)]]

\* coroutine k has taken a step
Put(k, task) == Collect([tasks EXCEPT ![k] = task], threads)

\* future.result returns, or raises the coroutine's exception
Wait(t) ==
    /\ threads[t].pc \in {"wait_init", "wait"}
    /\ Finished(threads[t].task)
    /\ LET task == tasks[threads[t].task]
           raised == task.status = "failed"
       IN /\ pool' = ExitLock(pool, t, raised)
          /\ Collect(tasks,
                     IF threads[t].op = "close"
                     THEN [threads EXCEPT ![t].pc = "close_stop", ![t].task = 0]
                     ELSE IF raised THEN Leave(t, "error", 0)
                     ELSE IF threads[t].pc = "wait_init"
                     THEN [threads EXCEPT ![t].pc = "run_async", ![t].task = 0]
                     ELSE Leave(t, "ok", task.value))
    /\ UNCHANGED <<loops, chromium, pool_hist, agentVars, store_op, sched, web>>

\* future.result(timeout=self.timeout / 1000 + 10) raises TimeoutError: the
\* coroutine is not finished and stays scheduled
Timeout(t) ==
    /\ threads[t].pc \in {"wait_init", "wait"}
    /\ ~Finished(threads[t].task)
    /\ pool' = ExitLock(pool, t, TRUE)
    /\ threads' = IF threads[t].op = "close"
                  THEN [threads EXCEPT ![t].pc = "close_stop", ![t].task = 0]
                  ELSE Leave(t, "timeout", 0)
    /\ UNCHANGED tasks
    /\ pool_hist' = IF threads[t].op = "close" THEN pool_hist
                    ELSE [pool_hist EXCEPT !.timeouts = 1]
    /\ UNCHANGED <<loops, chromium, agentVars, store_op, sched, web>>

\* close() lines 147-151: a running loop is stopped and its thread joined
CloseStop(t) ==
    /\ threads[t].pc = "close_stop"
    /\ loops' = IF pool.loop # 0 /\ is_running(loops, pool.loop)
                THEN [loops EXCEPT ![pool.loop] = "stopped"]
                ELSE loops
    /\ threads' = Leave(t, "ok", 0)
    /\ pool_hist' = [pool_hist EXCEPT
                       !.closed = TRUE,
                       !.loops_at_close = IF pool_hist.closed THEN @ ELSE Len(loops),
                       !.launches_at_close = IF pool_hist.closed THEN @ ELSE Launches,
                       !.closes = IF \A s \in Threads \ {t} : threads[s].pc = "idle"
                                  THEN Append(@, [pool |-> pool, loops |-> loops'])
                                  ELSE <<>>]
    /\ UNCHANGED <<pool, tasks, chromium, agentVars, store_op, sched, web>>

(***************************************************************************)
(* BrowserPool: the event loops.  A coroutine runs from one await to the   *)
(* next in one step; coroutines of one loop take their steps in turn.      *)
(***************************************************************************)
\* the loop's thread enters run_forever
LoopStart(l) ==
    /\ loops[l] = "starting"
    /\ loops' = [loops EXCEPT ![l] = "running"]
    /\ UNCHANGED <<pool, tasks, threads, chromium, pool_hist, agentVars, store_op, sched, web>>

\* coroutine k of the given kind can take its next step
Runnable(k, kind) ==
    /\ tasks[k].kind = kind
    /\ ~Finished(k)
    /\ is_running(loops, tasks[k].loop)

\* a Playwright object created on loop l can be driven from loop m
Usable(l, m) == l = m

\* a page is closed
ClosePageOf(c, pid) == [c EXCEPT !.pages[pid].closed = TRUE]

\* a browser is closed, with its pages
CloseBrowserOf(c, b) ==
    [c EXCEPT !.browsers[b].state = "closed",
              !.pages = [i \in 1..Len(@) |->
                            IF @[i].browser = b THEN [@[i] EXCEPT !.closed = TRUE] ELSE @[i]]]

\* _async_init
AsyncInit(k) ==
    /\ Runnable(k, "init")
    /\ LET task == tasks[k] IN
       CASE task.step = "start" ->
              /\ IF pool.initialized
                          THEN Put(k, [tasks[k] EXCEPT !.status = "done"])
                          ELSE Put(k, [tasks[k] EXCEPT !.status = "running", !.step = "playwright_start"])
              /\ UNCHANGED <<pool, chromium>>
         [] task.step = "playwright_start" ->
              /\ chromium' = [chromium EXCEPT !.playwrights =
                                Append(@, [loop |-> task.loop, state |-> "running"])]
              /\ pool' = [pool EXCEPT !.playwright = Len(chromium.playwrights) + 1]
              /\ Put(k, [tasks[k] EXCEPT !.step = "launch"])
         [] task.step = "launch" ->
              /\ chromium' = [chromium EXCEPT !.browsers =
                                Append(@, [loop |-> task.loop, state |-> "open"])]
              /\ pool' = [pool EXCEPT !.browser = Len(chromium.browsers) + 1,
                                      !.initialized = TRUE]
              /\ Put(k, [tasks[k] EXCEPT !.status = "done"])
    /\ UNCHANGED <<loops, pool_hist, agentVars, store_op, sched, web>>

CachedPage_Never(p, c, url, force_new) == 0

\* the page of _pages that _async_get_page returns without creating one
CachedPage(p, c, url, force_new) ==
    IF ~force_new /\ p.pages[url] # 0 /\ ~c.pages[p.pages[url]].closed
    THEN p.pages[url] ELSE 0

\* _async_get_page; new_context and new_page are one step, goto and
\* wait_for_timeout another
AsyncGetPage(k) ==
    /\ Runnable(k, "get_page")
    /\ LET task == tasks[k] IN
       CASE task.step = "start" ->
              /\ IF CachedPage(pool, chromium, task.url, task.force_new) # 0
                          THEN Put(k, [tasks[k] EXCEPT !.status = "done",
                                             !.value = CachedPage(pool, chromium, task.url,
                                                                     task.force_new)])
                          ELSE IF pool.browser = 0
                          THEN Put(k, [tasks[k] EXCEPT !.status = "failed"])
                          ELSE Put(k, [tasks[k] EXCEPT !.status = "running",
                                             !.step = "new_page",
                                             !.browser = pool.browser])
              /\ UNCHANGED <<pool, chromium>>
         [] task.step = "new_page" ->
              IF /\ chromium.browsers[task.browser].state = "open"
                 /\ Usable(chromium.browsers[task.browser].loop, task.loop)
              THEN /\ chromium' = [chromium EXCEPT !.pages =
                                     Append(@, [browser |-> task.browser, closed |-> FALSE])]
                   /\ Put(k, [tasks[k] EXCEPT !.step = "goto",
                                             !.page = Len(chromium.pages) + 1])
                   /\ UNCHANGED pool
              ELSE /\ Put(k, [tasks[k] EXCEPT !.status = "failed"])
                   /\ UNCHANGED <<pool, chromium>>
         [] task.step = "goto" ->
              IF ~chromium.pages[task.page].closed
              THEN /\ pool' = [pool EXCEPT !.pages[task.url] = task.page]
                   /\ Put(k, [tasks[k] EXCEPT !.status = "done", !.value = task.page])
                   /\ UNCHANGED chromium
              ELSE /\ Put(k, [tasks[k] EXCEPT !.status = "failed"])
                   /\ UNCHANGED <<pool, chromium>>
    /\ UNCHANGED <<loops, pool_hist, agentVars, store_op, sched, web>>

\* await page.context.close() has ended: the page is closed, or the call
\* raised and the exception was swallowed
PageClosed(c, pid, l) ==
    IF Usable(c.browsers[c.pages[pid].browser].loop, l) THEN ClosePageOf(c, pid) ELSE c

\* _async_close_page, called by close_page
AsyncClosePage(k) ==
    /\ Runnable(k, "close_page")
    /\ LET task == tasks[k]
           pid == pool.pages[task.url]
       IN
       CASE task.step = "start" ->
              /\ pool' = [pool EXCEPT !.pages[task.url] = 0]
              /\ IF pid # 0 /\ ~chromium.pages[pid].closed
                          THEN Put(k, [tasks[k] EXCEPT !.status = "running", !.step = "closing",
                                             !.page = pid])
                          ELSE Put(k, [tasks[k] EXCEPT !.status = "done"])
              /\ UNCHANGED chromium
         [] task.step = "closing" ->
              /\ chromium' = PageClosed(chromium, task.page, task.loop)
              /\ Put(k, [tasks[k] EXCEPT !.status = "done"])
              /\ UNCHANGED pool
    /\ UNCHANGED <<loops, pool_hist, agentVars, store_op, sched, web>>

\* _async_evaluate
AsyncEvaluate(k) ==
    /\ Runnable(k, "evaluate")
    /\ LET task == tasks[k] IN
       CASE task.step = "start" ->
              Put(k, [tasks[k] EXCEPT !.status = "running", !.step = "evaluating"])
         [] task.step = "evaluating" ->
              IF /\ ~chromium.pages[task.page].closed
                          /\ Usable(chromium.browsers[chromium.pages[task.page].browser].loop,
                                    task.loop)
                       THEN Put(k, [tasks[k] EXCEPT !.status = "done", !.value = task.page])
                       ELSE Put(k, [tasks[k] EXCEPT !.status = "failed"])
    /\ UNCHANGED <<pool, loops, chromium, pool_hist, agentVars, store_op, sched, web>>

\* _async_close lines 120-121 from the given keys on, up to the next await:
\* the pool, the page whose context is being closed (0 if none is left) and
\* the keys still to visit
RECURSIVE ClosePagesFrom(_, _, _)
ClosePagesFrom(p, c, keys) ==
    IF keys = <<>> THEN [pool |-> p, page |-> 0, keys |-> <<>>]
    ELSE LET u == Head(keys)
             pid == p.pages[u]
             q == [p EXCEPT !.pages[u] = 0]
         IN IF pid = 0 THEN ClosePagesFrom(p, c, Tail(keys))
            ELSE IF c.pages[pid].closed THEN ClosePagesFrom(q, c, Tail(keys))
            ELSE [pool |-> q, page |-> pid, keys |-> Tail(keys)]

\* list(self._pages.keys())
KeysOf(p) == SelectSeq(URLSeq, LAMBDA u : p.pages[u] # 0)

\* _async_close lines 135-137
ResetPool(p) == [p EXCEPT !.initialized = FALSE, !.browser = 0, !.playwright = 0]

\* _async_close lines 123-137 up to the next await, once the pages are done
CloseAfterPages(k, p) ==
    IF p.browser # 0
    THEN /\ pool' = p
         /\ Put(k, [tasks[k] EXCEPT !.status = "running", !.step = "browser_close",
                                   !.browser = p.browser, !.keys = <<>>])
    ELSE IF p.playwright # 0
    THEN /\ pool' = p
         /\ Put(k, [tasks[k] EXCEPT !.status = "running", !.step = "playwright_stop",
                                   !.playwright = p.playwright, !.keys = <<>>])
    ELSE /\ pool' = ResetPool(p)
         /\ Put(k, [tasks[k] EXCEPT !.status = "done", !.keys = <<>>])

\* _async_close lines 120-137 from the given keys on, up to the next await
CloseFromPages(k, c, keys) ==
    LET r == ClosePagesFrom(pool, c, keys)
    IN IF r.page # 0
       THEN /\ pool' = r.pool
            /\ Put(k, [tasks[k] EXCEPT !.status = "running", !.step = "closing",
                                      !.page = r.page, !.keys = r.keys])
       ELSE CloseAfterPages(k, r.pool)

\* _async_close
AsyncClose(k) ==
    /\ Runnable(k, "close")
    /\ LET task == tasks[k] IN
       CASE task.step = "start" ->
              /\ CloseFromPages(k, chromium, KeysOf(pool))
              /\ UNCHANGED chromium
         [] task.step = "closing" ->
              /\ chromium' = PageClosed(chromium, task.page, task.loop)
              /\ CloseFromPages(k, PageClosed(chromium, task.page, task.loop), task.keys)
         [] task.step = "browser_close" ->
              /\ chromium' = IF Usable(chromium.browsers[task.browser].loop, task.loop)
                             THEN CloseBrowserOf(chromium, task.browser)
                             ELSE chromium
              /\ IF pool.playwright # 0
                 THEN /\ Put(k, [tasks[k] EXCEPT !.step = "playwright_stop",
                                                !.playwright = pool.playwright])
                      /\ UNCHANGED pool
                 ELSE /\ pool' = ResetPool(pool)
                      /\ Put(k, [tasks[k] EXCEPT !.status = "done"])
         [] task.step = "playwright_stop" ->
              /\ chromium' = IF Usable(chromium.playwrights[task.playwright].loop, task.loop)
                             THEN [chromium EXCEPT !.playwrights[task.playwright].state = "stopped"]
                             ELSE chromium
              /\ pool' = ResetPool(pool)
              /\ Put(k, [tasks[k] EXCEPT !.status = "done"])
    /\ UNCHANGED <<loops, pool_hist, agentVars, store_op, sched, web>>

\* a pool after get_page("u2") and then t1's get_page("u1") have returned:
\* the loop runs, the browser is launched and both pages are kept in _pages
InitReadyPool ==
    /\ pool = [NewPool EXCEPT !.playwright = 1, !.browser = 1,
                              !.pages["u1"] = 1, !.pages["u2"] = 2,
                              !.loop = 1, !.thread = 1, !.initialized = TRUE]
    /\ loops = <<"running">>
    /\ tasks = <<>>
    /\ threads = [t \in Threads |->
                    IF t = "t1"
                    THEN [IdleThread EXCEPT !.op = "get_page", !.status = "ok",
                                            !.value = 1, !.held = 1]
                    ELSE IdleThread]
    /\ chromium = [playwrights |-> <<[loop |-> 1, state |-> "running"]>>,
                   browsers |-> <<[loop |-> 1, state |-> "open"]>>,
                   pages |-> <<[browser |-> 1, closed |-> FALSE],
                               [browser |-> 1, closed |-> FALSE]>>]
    /\ pool_hist = NoPoolHist

\* the agent is idle and its session directory is empty; the pool is fresh
\* or ready
InitPoolOnly ==
    /\ files = [p \in Paths |-> NoFile]
    /\ clock = 1
    /\ client = "ollama"
    /\ InitCall
    /\ store_op = NoStoreOp
    /\ InitScheduler
    /\ (InitPool \/ InitReadyPool)
    /\ InitWeb

NextPool ==
    \/ \E t \in Threads, u \in GetPageURLs, f \in BOOLEAN : GetPage(t, u, f)
    \/ \E t \in Threads : EnsureBrowser(t)
    \/ \E t \in Threads : RunGetPage(t)
    \/ \E t \in Threads, u \in URLs : ClosePage(t, u)
    \/ \E t \in Threads : Evaluate(t)
    \/ \E t \in Threads : Close(t)
    \/ \E t \in Threads : Wait(t)
    \/ \E t \in Threads : Timeout(t)
    \/ \E t \in Threads : CloseStop(t)
    \/ \E l \in 1..Len(loops) : LoopStart(l)
    \/ \E k \in 1..Len(tasks) : AsyncInit(k)
    \/ \E k \in 1..Len(tasks) : AsyncGetPage(k)
    \/ \E k \in 1..Len(tasks) : AsyncClosePage(k)
    \/ \E k \in 1..Len(tasks) : AsyncEvaluate(k)
    \/ \E k \in 1..Len(tasks) : AsyncClose(k)

SpecPool == InitPoolOnly /\ [][NextPool]_vars

(***************************************************************************)
(* webmcp.py: one thread calls the methods of a WebMCPClient, which owns   *)
(* its BrowserPool.  A method runs up to the point where it blocks in a    *)
(* method of the pool in one step; pages may fail to load and scripts may  *)
(* fail on a page.                                                         *)
(***************************************************************************)
MaxWebCalls == 1

\* the thread that calls the WebMCPClient
WebThread == "t1"

\* a method of the client is entered
Begin(op, url, force, name) ==
    [web EXCEPT !.n = @ + 1, !.start_calls = pool_hist.n,
                !.call = [NoWebCall EXCEPT !.op = op, !.url = url, !.force = force,
                                           !.name = name,
                                           !.start_pages = Len(chromium.pages)]]

\* the method returns result, or raises; failed tells which method of the
\* pool raised and did what the script did on the page
Return(w, result, raised, failed, did) ==
    [w EXCEPT !.stage = "idle", !.prev = w.last, !.call = NoWebCall,
              !.last = [w.call EXCEPT !.result = result, !.raised = raised,
                                      !.failed = failed, !.did = did,
                                      !.pool_calls = pool_hist.n - w.start_calls,
                                      !.end_pages = Len(chromium.pages)]]

\* the thread is back from the method of the pool it called
Back(t) == threads[t].pc = "idle"

\* how the method of the pool ended, for the except clause
Raised(t) == threads[t].status \in {"error", "timeout"}

StoreResult_Only(cache, url, result) == [u \in URLs |-> IF u = url THEN <<result>> ELSE <<>>]

\* discover_tools line 209: self._tool_cache[url] = result
StoreResult(cache, url, result) == [cache EXCEPT ![url] = <<result>>]

CacheHit_Never(cache, url, force_refresh) == FALSE

\* discover_tools line 198: the call is answered from _tool_cache
CacheHit(cache, url, force_refresh) == ~force_refresh /\ cache[url] # <<>>

\* discover_tools lines 198-204: a result in _tool_cache is marked and
\* returned, otherwise get_page is called
DiscoverTools(t, url, force_refresh) ==
    /\ web.stage = "idle"
    /\ Back(t)
    /\ web.n < MaxWebCalls
    /\ LET w == Begin("discover", url, force_refresh, "") IN
       IF CacheHit(web.tool_cache, url, force_refresh)
       THEN LET cached == [web.tool_cache[url][1] EXCEPT !.fromCache = TRUE]
            IN /\ web' = Return([w EXCEPT !.tool_cache[url] = <<cached>>],
                                cached, FALSE, "no", "nothing")
               /\ UNCHANGED <<poolVars, agentVars, store_op, sched>>
       ELSE /\ get_page(t, url, force_refresh)
            /\ web' = [w EXCEPT !.stage = "get_page"]

\* discover_tools line 205, or lines 222-231 when get_page raised
DiscoverGotPage(t) ==
    /\ web.stage = "get_page"
    /\ web.call.op = "discover"
    /\ Back(t)
    /\ IF Raised(t)
       THEN /\ web' = Return(web, DiscoverFailure(web.call.url, threads[t].status),
                             FALSE, "get_page", "nothing")
            /\ UNCHANGED <<poolVars, agentVars, store_op, sched>>
       ELSE /\ evaluate(t)
            /\ web' = [web EXCEPT !.stage = "evaluate"]

\* discover_tools lines 207-210, or lines 222-231 when evaluate raised; the
\* script returns an object, so lines 211-220 are not reached
DiscoverEvaluated(t) ==
    /\ web.stage = "evaluate"
    /\ web.call.op = "discover"
    /\ Back(t)
    /\ LET url == web.call.url
           result == DiscoverSuccess(url, DISCOVER_TOOLS_JS(SiteOf(url)))
       IN web' = IF Raised(t)
                 THEN Return(web, DiscoverFailure(url, threads[t].status),
                             FALSE, "evaluate", "nothing")
                 ELSE Return([web EXCEPT !.tool_cache = StoreResult(@, url, result)],
                             result, FALSE, "no", "nothing")
    /\ UNCHANGED <<poolVars, agentVars, store_op, sched>>

\* execute_tool line 249
ExecuteTool(t, url, tool_name) ==
    /\ web.stage = "idle"
    /\ Back(t)
    /\ web.n < MaxWebCalls
    /\ get_page(t, url, FALSE)
    /\ web' = [Begin("execute", url, FALSE, tool_name) EXCEPT !.stage = "get_page"]

\* execute_tool line 295, or lines 298-299 when get_page raised
ExecuteGotPage(t) ==
    /\ web.stage = "get_page"
    /\ web.call.op = "execute"
    /\ Back(t)
    /\ IF Raised(t)
       THEN /\ web' = Return(web, ExecuteFailure(threads[t].status),
                             FALSE, "get_page", "unknown")
            /\ UNCHANGED <<poolVars, agentVars, store_op, sched>>
       ELSE /\ evaluate(t)
            /\ web' = [web EXCEPT !.stage = "evaluate"]

\* execute_tool line 296, or lines 298-299 when evaluate raised: the script
\* may have run on the page all the same
ExecuteEvaluated(t) ==
    /\ web.stage = "evaluate"
    /\ web.call.op = "execute"
    /\ Back(t)
    /\ LET run == exec_js(SiteOf(web.call.url), web.call.name)
       IN web' = IF Raised(t)
                 THEN Return(web, ExecuteFailure(threads[t].status),
                             FALSE, "evaluate", "unknown")
                 ELSE Return(web, run.result, FALSE, "no", run.did)
    /\ UNCHANGED <<poolVars, agentVars, store_op, sched>>

\* clear_cache(url): the entry is dropped and close_page is called
ClearCache(t, url) ==
    /\ web.stage = "idle"
    /\ Back(t)
    /\ web.n < MaxWebCalls
    /\ close_page(t, url)
    /\ web' = [Begin("clear_cache", url, FALSE, "") EXCEPT
                  !.stage = "pool", !.tool_cache[url] = <<>>]

\* clear_cache(): every entry is dropped, the pool is not called
ClearCacheAll(t) ==
    /\ web.stage = "idle"
    /\ Back(t)
    /\ web.n < MaxWebCalls
    /\ web' = Return([Begin("clear_cache", "", FALSE, "") EXCEPT
                         !.tool_cache = [u \in URLs |-> <<>>]],
                     <<>>, FALSE, "no", "nothing")
    /\ UNCHANGED <<poolVars, agentVars, store_op, sched>>

\* WebMCPClient.close: every entry is dropped and the pool is closed
CloseClient(t) ==
    /\ web.stage = "idle"
    /\ Back(t)
    /\ web.n < MaxWebCalls
    /\ close(t)
    /\ web' = [Begin("close", "", FALSE, "") EXCEPT
                  !.stage = "pool", !.tool_cache = [u \in URLs |-> <<>>]]

\* clear_cache and close return what the method of the pool returns, and
\* raise what it raises
ClientReturn(t) ==
    /\ web.stage = "pool"
    /\ Back(t)
    /\ web' = Return(web, <<>>, Raised(t), IF Raised(t) THEN web.call.op ELSE "no", "nothing")
    /\ UNCHANGED <<poolVars, agentVars, store_op, sched>>

\* page.goto raises: the page does not load
GotoFails(k) ==
    /\ Runnable(k, "get_page")
    /\ tasks[k].step = "goto"
    /\ Put(k, [tasks[k] EXCEPT !.status = "failed"])
    /\ UNCHANGED <<pool, loops, chromium, pool_hist, agentVars, store_op, sched, web>>

\* page.evaluate raises: the script fails on the page
EvaluateFails(k) ==
    /\ Runnable(k, "evaluate")
    /\ tasks[k].step = "evaluating"
    /\ Put(k, [tasks[k] EXCEPT !.status = "failed"])
    /\ UNCHANGED <<pool, loops, chromium, pool_hist, agentVars, store_op, sched, web>>

\* a client whose only call so far was discover_tools("u1"): the pool is
\* started and has opened one page; either the page loaded and was scanned
\* (loaded), or page.goto raised
InitAfterDiscover(loaded) ==
    LET result == IF loaded THEN DiscoverSuccess("u1", DISCOVER_TOOLS_JS(SiteOf("u1")))
                  ELSE DiscoverFailure("u1", "error")
    IN
    /\ pool = [NewPool EXCEPT !.playwright = 1, !.browser = 1,
                              !.pages["u1"] = IF loaded THEN 1 ELSE 0,
                              !.loop = 1, !.thread = 1, !.initialized = TRUE]
    /\ loops = <<"running">>
    /\ tasks = <<>>
    /\ threads = [t \in Threads |->
                    IF t # WebThread THEN IdleThread
                    ELSE IF loaded
                    THEN [IdleThread EXCEPT !.op = "evaluate", !.status = "ok",
                                            !.value = 1, !.held = 1]
                    ELSE [IdleThread EXCEPT !.op = "get_page", !.status = "error"]]
    /\ chromium = [playwrights |-> <<[loop |-> 1, state |-> "running"]>>,
                   browsers |-> <<[loop |-> 1, state |-> "open"]>>,
                   pages |-> <<[browser |-> 1, closed |-> FALSE]>>]
    /\ pool_hist = NoPoolHist
    /\ web = [NewClient EXCEPT
                !.tool_cache["u1"] = IF loaded THEN <<result>> ELSE <<>>,
                !.last = [NoWebCall EXCEPT !.op = "discover", !.url = "u1",
                                           !.result = result,
                                           !.failed = IF loaded THEN "no" ELSE "get_page",
                                           !.pool_calls = IF loaded THEN 2 ELSE 1,
                                           !.end_pages = 1]]

\* the agent is idle and its session directory is empty; the client is
\* new, or it has made one discover_tools call
InitWebOnly ==
    /\ files = [p \in Paths |-> NoFile]
    /\ clock = 1
    /\ client = "ollama"
    /\ InitCall
    /\ store_op = NoStoreOp
    /\ InitScheduler
    /\ \/ InitPool /\ InitWeb
       \/ \E loaded \in BOOLEAN : InitAfterDiscover(loaded)

NextWeb ==
    \/ \E u \in URLs, f \in BOOLEAN : DiscoverTools(WebThread, u, f)
    \/ DiscoverGotPage(WebThread)
    \/ DiscoverEvaluated(WebThread)
    \/ \E e \in ExecuteInputs : ExecuteTool(WebThread, e[1], e[2])
    \/ ExecuteGotPage(WebThread)
    \/ ExecuteEvaluated(WebThread)
    \/ \E u \in URLs : ClearCache(WebThread, u)
    \/ ClearCacheAll(WebThread)
    \/ CloseClient(WebThread)
    \/ ClientReturn(WebThread)
    \/ EnsureBrowser(WebThread)
    \/ RunGetPage(WebThread)
    \/ Wait(WebThread)
    \/ Timeout(WebThread)
    \/ CloseStop(WebThread)
    \/ \E l \in 1..Len(loops) : LoopStart(l)
    \/ \E k \in 1..Len(tasks) : AsyncInit(k)
    \/ \E k \in 1..Len(tasks) : AsyncGetPage(k)
    \/ \E k \in 1..Len(tasks) : GotoFails(k)
    \/ \E k \in 1..Len(tasks) : AsyncClosePage(k)
    \/ \E k \in 1..Len(tasks) : AsyncEvaluate(k)
    \/ \E k \in 1..Len(tasks) : EvaluateFails(k)
    \/ \E k \in 1..Len(tasks) : AsyncClose(k)

SpecWeb == InitWebOnly /\ [][NextWeb]_vars

(***************************************************************************)
(* scheduler.py: the main thread calls start() and stop(); the threads     *)
(* that start() created run _run.                                          *)
(***************************************************************************)
MaxSchedulerCalls == 6

\* every start() creates at most one thread
SchedulerThreads == 1..MaxSchedulerCalls

\* start(): nothing when running is set; otherwise the flag is set and a new
\* thread is started on _run
start(sc) ==
    IF sc.running THEN sc
    ELSE [sc EXCEPT !.running = TRUE, !.thread = Len(sc.threads) + 1,
                    !.threads = Append(@, "test")]

\* stop(): the flag is cleared
stop(sc) == [sc EXCEPT !.running = FALSE]

\* _run line 27: the test of the while loop, by thread i
LoopTest(sc, i) ==
    [sc EXCEPT !.threads[i] = IF sc.running THEN "run_pending" ELSE "exited"]

Start ==
    /\ sched.n < MaxSchedulerCalls
    /\ sched' = [start(sched) EXCEPT !.n = @ + 1]
    /\ UNCHANGED <<agentVars, store_op, poolVars, web>>

Stop ==
    /\ sched.n < MaxSchedulerCalls
    /\ sched' = [stop(sched) EXCEPT !.n = @ + 1]
    /\ UNCHANGED <<agentVars, store_op, poolVars, web>>

\* thread i evaluates self.running at the head of the loop
RunTest(i) ==
    /\ i <= Len(sched.threads)
    /\ sched.threads[i] = "test"
    /\ sched' = LoopTest(sched, i)
    /\ UNCHANGED <<agentVars, store_op, poolVars, web>>

\* _run line 28: schedule.run_pending() returns
RunPending(i) ==
    /\ i <= Len(sched.threads)
    /\ sched.threads[i] = "run_pending"
    /\ sched' = [sched EXCEPT !.threads[i] = "sleep"]
    /\ UNCHANGED <<agentVars, store_op, poolVars, web>>

\* _run line 29: time.sleep(1) returns
RunSleep(i) ==
    /\ i <= Len(sched.threads)
    /\ sched.threads[i] = "sleep"
    /\ sched' = [sched EXCEPT !.threads[i] = "test"]
    /\ UNCHANGED <<agentVars, store_op, poolVars, web>>

\* the agent is idle, its session directory is empty and the pool and the
\* client are new
InitSchedulerOnly ==
    /\ files = [p \in Paths |-> NoFile]
    /\ clock = 1
    /\ client = "ollama"
    /\ InitCall
    /\ store_op = NoStoreOp
    /\ InitScheduler
    /\ InitPool
    /\ InitWeb

NextScheduler ==
    \/ Start
    \/ Stop
    \/ \E i \in SchedulerThreads : RunTest(i)
    \/ \E i \in SchedulerThreads : RunPending(i)
    \/ \E i \in SchedulerThreads : RunSleep(i)

SpecScheduler == InitSchedulerOnly /\ [][NextScheduler]_vars

(***************************************************************************)
(* Properties.                                                             *)
(***************************************************************************)
\* the lines of the file of the session being processed
SessionLines == files[get_path(sid)].lines

\* the lines written to it since the call started
NewLines == SubSeq(SessionLines, Len(log0) + 1, Len(SessionLines))

\* the call is waiting for, or between, backend calls
InSendMessage == pc \in {"chat", "tool", "forced", "gemini_chat"}

\* C1 as stated: one OllamaClient.send_message call makes at most R+1
\* backend calls, R = MAX_TOOL_ROUNDS
C1_AtMostRPlusOneCalls ==
    client = "ollama" => calls <= MAX_TOOL_ROUNDS + 1

\* C1 amended: one OllamaClient.send_message call makes at most R+2 backend
\* calls (R+1 in the round loop and the forced text-only call), and once
\* the (R+2)-th call is answered send_message has returned
C1_AtMostRPlusTwoCalls ==
    client = "ollama" =>
        /\ calls <= MAX_TOOL_ROUNDS + 2
        /\ (calls = MAX_TOOL_ROUNDS + 2 => pc \in {"save", "done"})
        /\ (pc \in {"chat", "tool"} => round_num <= MAX_TOOL_ROUNDS)

\* C1 witness: a backend that asked for tools in every response of the loop
\* was called R+2 times and the call returned
C1_Witness ==
    /\ client = "ollama"
    /\ pc = "done"
    /\ calls = MAX_TOOL_ROUNDS + 2
    /\ round_num = MAX_TOOL_ROUNDS + 1
    /\ last_resp.tool_calls # <<>>

\* C2 as stated: while process_message is calling the backend, the session
\* file already holds a user record, written by this call, with the user's
\* message
C2_UserMessageSavedBeforeBackend ==
    InSendMessage =>
        \E i \in 1..Len(NewLines) :
            /\ NewLines[i].kind = "msg"
            /\ NewLines[i].role = "user"
            /\ NewLines[i].content \in {user_message, content}

\* C3 as stated: on a session without a log, a backend that answers text t
\* without tool calls makes process_message return t and leaves the log with
\* exactly the user record m and the assistant record t, in this order
C3_FirstExchangePersisted ==
    (/\ pc = "done"
     /\ log0 = <<>>
     /\ outcome = "text"
     /\ calls = 1
     /\ last_resp.content # "") =>
        /\ returned = last_resp.content
        /\ Len(SessionLines) = 2
        /\ SessionLines[1].kind = "msg"
        /\ SessionLines[1].role = "user"
        /\ SessionLines[1].content = user_message
        /\ SessionLines[2].kind = "msg"
        /\ SessionLines[2].role = "assistant"
        /\ SessionLines[2].content = last_resp.content

\* C4 as stated: a process_message call that returned has appended exactly
\* one user record carrying the new message, at most one assistant record
\* after it, and nothing else: no tool record, no copy of an earlier record
C4_OneUserAtMostOneAssistant ==
    pc = "done" =>
        /\ SessionLines = log0 \o NewLines
        /\ Len(NewLines) \in {1, 2}
        /\ NewLines[1].role = "user"
        /\ NewLines[1].content \in {user_message, content}
        /\ \A i \in 1..Len(log0) : log0[i] # NewLines[1]
        /\ (Len(NewLines) = 2 => NewLines[2].role = "assistant")

\* every user record of the log is directly followed by an assistant record
Answered(lines) ==
    \A i \in 1..Len(lines) :
        (lines[i].kind = "msg" /\ lines[i].role = "user") =>
            /\ i < Len(lines)
            /\ lines[i + 1].kind = "msg"
            /\ lines[i + 1].role = "assistant"

\* C5: when process_message has returned, also after a backend failure, the
\* log it found without unanswered user record has no unanswered user record
C5_NoUnansweredUser ==
    (pc = "done" /\ Answered(log0)) => Answered(SessionLines)

\* C5 witness: a call in which the backend failed returned, on a session
\* whose log holds a user record, and wrote to the log
C5_Witness ==
    /\ pc = "done"
    /\ outcome = "error"
    /\ Len(NewLines) > 0
    /\ \E i \in 1..Len(SessionLines) : SessionLines[i].role = "user"

\* C6: a backend call that raises, at any round, does not make send_message
\* or process_message raise: the session gets an assistant message that
\* carries the failure, and a fixed natural-language text is returned
C6_BackendFailureRecovered ==
    /\ pc # "crashed"
    /\ (pc \in {"save", "done"} /\ last_resp.kind \in {"raise", "none"}) =>
          /\ outcome = "error"
          /\ history[Len(history)].role = "assistant"
          /\ Contains(history[Len(history)].content, returned)
          /\ (last_resp.kind = "raise" =>
                Contains(history[Len(history)].content, last_resp.content))
          /\ returned = (IF client = "ollama" THEN OLLAMA_FALLBACK ELSE GEMINI_FALLBACK)

\* C6 witness: the forced final call raised and process_message returned
C6_Witness ==
    /\ pc = "done"
    /\ last_resp.kind = "raise"
    /\ calls = MAX_TOOL_ROUNDS + 2
    /\ returned = OLLAMA_FALLBACK

\* C7 as stated: the text process_message returns is the content of the
\* assistant message the call added to the session and wrote to the log
C7_ReturnedIsPersistedAnswer ==
    pc = "done" =>
        /\ history[Len(history)].role = "assistant"
        /\ history[Len(history)].content = returned
        /\ Len(NewLines) > 0
        /\ NewLines[Len(NewLines)].role = "assistant"
        /\ NewLines[Len(NewLines)].content = returned

\* C8: the text OllamaClient.send_message returns is never empty
C8_NonEmptyAnswer ==
    (client = "ollama" /\ pc \in {"save", "done"}) => returned # ""

\* C8 witness: the rounds were exhausted, the forced call returned no
\* content and the last tool results were empty texts
C8_Witness ==
    /\ client = "ollama"
    /\ pc = "done"
    /\ outcome = "exhausted"
    /\ last_resp.kind = "msg"
    /\ last_resp.content = ""
    /\ returned = "\n\n"

\* C9: every tool call of a round is handled, in order, whatever the earlier
\* ones did; the transcript for the next backend call ends with one tool
\* message per call; the message of a call that raised names the failure
\* reason and the message of a call that returned is its result
C9_ToolFailureIsLocal ==
    (client = "ollama" /\ pc \in {"tool", "chat", "forced"}) =>
        /\ Len(round_log) <= Len(tool_calls)
        /\ (pc \in {"chat", "forced"} => Len(round_log) = Len(tool_calls))
        /\ (pc = "tool" => Len(round_log) = tool_idx - 1)
        /\ \A i \in 1..Len(round_log) :
            LET m == messages[Len(messages) - Len(round_log) + i]
            IN /\ round_log[i].name = tool_calls[i]
               /\ m.role = "tool"
               /\ (round_log[i].kind = "raise" =>
                      /\ Contains(m.content, "Error executing tool")
                      /\ Contains(m.content, round_log[i].text))
               /\ ((round_log[i].kind = "ret" /\ Len(round_log[i].text) <= TRUNCATE_AT) =>
                      m.content = round_log[i].text)

\* C9 witness: a call of the round raised, a later call of the same round
\* returned a result, and the next backend call is about to be made
C9_Witness ==
    /\ client = "ollama"
    /\ pc = "chat"
    /\ \E i \in 1..Len(round_log) : \E j \in (i + 1)..Len(round_log) :
        /\ round_log[i].kind = "raise"
        /\ round_log[j].kind = "ret"
        /\ round_log[j].text # ""
        /\ messages[Len(messages) - Len(round_log) + j].content = round_log[j].text

\* C10: no function is called for a name that is not registered; the call's
\* result is the not-found text and the round goes on; get_tool of an
\* unregistered name is None
C10_UnregisteredToolNotInvoked ==
    /\ \A i \in 1..Len(invoked) :
        /\ invoked[i].name \in RegisteredTools
        /\ invoked[i].func = invoked[i].name
    /\ \A n \in {"ghost_tool", ""} : get_tool(n) = NoTool
    /\ (client = "ollama" /\ pc \in {"tool", "chat", "forced"}) =>
          \A i \in 1..Len(round_log) :
              round_log[i].name \notin RegisteredTools =>
                  /\ round_log[i].kind = "notfound"
                  /\ messages[Len(messages) - Len(round_log) + i].content
                        = "Error: Tool " \o round_log[i].name \o " not found."

\* C10 witness: the backend named an unregistered tool, the call after it
\* in the same round was executed, and the next backend call is about to be
\* made
C10_Witness ==
    /\ client = "ollama"
    /\ pc = "chat"
    /\ \E i \in 1..Len(round_log) :
        /\ round_log[i].name = "ghost_tool"
        /\ i < Len(round_log)
        /\ round_log[i + 1].kind = "ret"

\* C11: a tool result longer than 4000 characters enters the transcript of
\* the next round as its first 4000 characters followed by the truncation
\* marker; a result of at most 4000 characters enters it unchanged
C11_TruncatedAtThreshold ==
    (client = "ollama" /\ pc \in {"tool", "chat", "forced"}) =>
        \A i \in 1..Len(round_log) :
            LET m == messages[Len(messages) - Len(round_log) + i]
                t == round_log[i].text
            IN round_log[i].kind = "ret" =>
                /\ (Len(t) <= 4000 => m.content = t)
                /\ (Len(t) > 4000 =>
                      /\ Len(m.content) = 4000 + Len(TRUNCATION_MARKER)
                      /\ SubSeq(m.content, 1, 4000) = SubSeq(t, 1, 4000)
                      /\ SubSeq(m.content, 4001, Len(m.content)) = TRUNCATION_MARKER)

\* C11 witness: the round that ended held a result of 4001 characters, cut
\* before its last character, and the next backend call is about to be made
C11_Witness ==
    /\ client = "ollama"
    /\ pc = "chat"
    /\ \E i \in 1..Len(round_log) :
        /\ Len(round_log[i].text) = 4001
        /\ messages[Len(messages) - Len(round_log) + i].content
              = Repeat("x", 4000) \o TRUNCATION_MARKER

\* a is a prefix of b
IsPrefix(a, b) == Len(a) <= Len(b) /\ SubSeq(b, 1, Len(a)) = a

\* C12: every step of a save_message or process_message call leaves each
\* persisted log as a prefix of what it becomes: no record is changed,
\* removed or reordered
C12_LogOnlyGrows ==
    [][\A p \in DOMAIN files : IsPrefix(files[p].lines, files'[p].lines)]_vars

\* C12 witness: a direct save_message and then a process_message call have
\* both written to the same log
C12_Witness ==
    /\ pc = "done"
    /\ store_op.op = "save"
    /\ get_path(store_op.id) = get_path(sid)
    /\ Len(log0) > 0
    /\ log0[Len(log0)] = model_dump_json(store_op.msg)
    /\ Len(NewLines) = 2

\* C13 as stated: load_session(id) right after save_message(id, msg) returns
\* the history load_session(id) returned before the save, followed by msg
C13_SaveThenLoad ==
    store_op.op = "save_load" => store_op.result = Append(store_op.pre, store_op.msg)

\* the Messages of the valid records of a log, in order
RECURSIVE ValidMessages(_)
ValidMessages(lines) ==
    IF lines = <<>> THEN <<>>
    ELSE (IF Head(lines).kind = "msg"
          THEN <<Message(Head(lines).role, Head(lines).content, Head(lines).timestamp)>>
          ELSE <<>>)
         \o ValidMessages(Tail(lines))

\* the number of records of a log that are no valid Message
Damaged(lines) ==
    Cardinality({i \in 1..Len(lines) : lines[i].kind \in {"badjson", "badmsg"}})

\* C14 as stated: load_session over a log with one damaged record, at any
\* position, returns exactly the valid Messages in their order
C14_DamagedRecordSkipped ==
    (/\ store_op.op = "load"
     /\ Damaged(store_op.log) = 1) =>
        store_op.result = ValidMessages(store_op.log)

\* b holds the characters of a in their order, possibly among others
RECURSIVE IsSubsequence(_, _)
IsSubsequence(a, b) ==
    IF a = "" THEN TRUE
    ELSE IF b = "" THEN FALSE
    ELSE IF CharAt(a, 1) = CharAt(b, 1)
         THEN IsSubsequence(SubSeq(a, 2, Len(a)), SubSeq(b, 2, Len(b)))
         ELSE IsSubsequence(a, SubSeq(b, 2, Len(b)))

\* path is SESSION_DIR/<stem>.jsonl with a stem made of letters, digits, '-'
\* and '_' taken in order from id
InSessionDir(path, id) ==
    LET prefix == SESSION_DIR \o "/"
        stem == SubSeq(path, Len(prefix) + 1, Len(path) - 6)
    IN /\ Len(path) >= Len(prefix) + 6
       /\ SubSeq(path, 1, Len(prefix)) = prefix
       /\ SubSeq(path, Len(path) - 5, Len(path)) = ".jsonl"
       /\ \A i \in 1..Len(stem) :
            CharAt(stem, i) \in AlnumChars \cup {"-", "_"}
       /\ IsSubsequence(stem, id)

\* C15: the file a SessionStore call reads or writes lies directly inside
\* the session directory and is named by the safe characters of the id; no
\* file exists anywhere else
C15_PathInsideSessionDir ==
    /\ store_op.op # "none" => InSessionDir(get_path(store_op.id), store_op.id)
    /\ pc # "idle" => InSessionDir(get_path(sid), sid)
    /\ \A p \in DOMAIN files :
        files[p].exists => \E id \in StoreIds : InSessionDir(p, id)

\* C15 witness: save_message was called with an id that starts with "../"
\* and wrote a file
C15_Witness ==
    /\ store_op.op = "save"
    /\ store_op.id = "../s1"
    /\ files[get_path(store_op.id)].exists

\* thread t has returned from a get_page call with a page
Served(t) ==
    /\ threads[t].pc = "idle"
    /\ threads[t].op = "get_page"
    /\ threads[t].status = "ok"

\* C16 as stated: as long as close was not called, chromium was launched at
\* most once, however many threads called get_page, and every page that
\* get_page returned belongs to that one browser
C16_LaunchedOnce ==
    ~pool_hist.close_called =>
        /\ Launches <= 1
        /\ \A t \in Threads : Served(t) => chromium.pages[threads[t].value].browser = 1

\* thread t has returned from a call of get_page, evaluate or close_page
\* that it made after a close() had returned
ReturnedAfterClose(t) ==
    /\ threads[t].pc = "idle"
    /\ threads[t].after_close
    /\ threads[t].op \in {"get_page", "evaluate", "close_page"}

\* C17 as stated: once a close() has returned, no event loop is created and
\* no browser is launched any more, and every get_page, evaluate or
\* close_page call made afterwards ends with an error
C17_ClosedIsTerminal ==
    pool_hist.closed =>
        /\ Len(loops) = pool_hist.loops_at_close
        /\ Launches = pool_hist.launches_at_close
        /\ \A t \in Threads :
              ReturnedAfterClose(t) => threads[t].status \in {"error", "timeout"}

\* coroutine k has begun and is suspended in an await on a running loop
InProgress(k) ==
    /\ tasks[k].status = "running"
    /\ is_running(loops, tasks[k].loop)

\* C18 as stated: on one event loop, no operation begins or continues while
\* another operation has begun and is not finished
C18_OneAtATime ==
    \A j, k \in 1..Len(tasks) :
        (j # k /\ InProgress(j) /\ InProgress(k)) => tasks[j].loop # tasks[k].loop

\* thread t leaves its call in this step although its coroutine is not
\* finished: its wait was too long
WaitExpires(t) ==
    /\ threads[t].pc \in {"wait_init", "wait"}
    /\ ~Finished(threads[t].task)
    /\ threads'[t].pc = "idle"

C20_CloseIdempotent ==
    \A i \in 1..Len(pool_hist.closes) : pool_hist.closes[i] = pool_hist.closes[1]

\* thread t waits for its _async_get_page coroutine, which takes a step
GetPageSteps(t) ==
    /\ threads[t].pc = "wait"
    /\ threads[t].op = "get_page"
    /\ threads'[t].task = threads[t].task
    /\ tasks'[threads[t].task] # tasks[threads[t].task]

\* the page kept for url in _pages is there and open
OpenCached(url) ==
    /\ pool.pages[url] # 0
    /\ ~chromium.pages[pool.pages[url]].closed

\* C21: a get_page(url, force_new=false) coroutine ends in its first step
\* with the page kept for url, creating nothing and changing no field, when
\* that page is there and open; otherwise it returns only a page that it
\* created itself in a new context, after navigating, and it stores that
\* page under url as it returns
C21_CachedPageReturned ==
    [][\A t \in Threads :
          (GetPageSteps(t) /\ ~threads[t].force_new) =>
              LET a == tasks[threads[t].task]
                  b == tasks'[threads[t].task]
              IN /\ (a.step = "start" /\ OpenCached(a.url)) =>
                        /\ b.status = "done"
                        /\ b.value = pool.pages[a.url]
                        /\ chromium' = chromium
                        /\ pool' = pool
                 /\ (a.step = "start" /\ ~OpenCached(a.url)) =>
                        /\ b.status # "done"
                        /\ chromium' = chromium
                        /\ pool' = pool
                 /\ (a.step = "new_page" /\ b.status = "running") =>
                        /\ b.step = "goto"
                        /\ Len(chromium'.pages) = Len(chromium.pages) + 1
                        /\ b.page = Len(chromium'.pages)
                        /\ pool' = pool
                 /\ (a.step # "start" /\ b.status = "done") =>
                        /\ a.step = "goto"
                        /\ b.value = a.page
                        /\ pool'.pages = [pool.pages EXCEPT ![a.url] = a.page]]_vars

\* C21 witness: a get_page(url, force_new=false) coroutine has ended in its
\* first step with the open page kept for url, and its caller waits for it
C21_Witness ==
    \E t \in Threads :
        /\ threads[t].pc = "wait"
        /\ threads[t].op = "get_page"
        /\ ~threads[t].force_new
        /\ tasks[threads[t].task].status = "done"
        /\ tasks[threads[t].task].step = "start"
        /\ tasks[threads[t].task].value # 0
        /\ tasks[threads[t].task].value = pool.pages[threads[t].url]

\* thread t waits for its _async_close_page coroutine, which takes a step
ClosePageSteps(t) ==
    /\ threads[t].pc = "wait"
    /\ threads[t].op = "close_page"
    /\ threads'[t].task = threads[t].task
    /\ tasks'[threads[t].task] # tasks[threads[t].task]

\* thread t calls close_page in this step
ClosePageCalled(t) ==
    /\ threads[t].pc = "idle"
    /\ pool_hist'.n = pool_hist.n + 1
    /\ threads'[t].op = "close_page"

\* C25 as stated: close_page(url) takes the entry of url out of _pages and
\* closes the context of that page, and changes nothing else: the entries
\* of the other URLs, the browser, the Playwright driver, the loop and its
\* thread stay as they are; for a url that is not in _pages the call
\* changes nothing
C25_ClosePageFrame ==
    [][\A t \in Threads :
          /\ ClosePageCalled(t) =>
                /\ pool' = pool
                /\ loops' = loops
                /\ chromium' = chromium
                /\ threads'[t].status = "noop" => tasks' = tasks
          /\ ClosePageSteps(t) =>
                LET a == tasks[threads[t].task]
                IN /\ loops' = loops
                   /\ a.step = "start" =>
                         /\ pool' = [pool EXCEPT !.pages[a.url] = 0]
                         /\ chromium' = chromium
                   /\ a.step = "closing" =>
                         /\ pool' = pool
                         /\ chromium' = [chromium EXCEPT !.pages[a.page].closed = TRUE]]_vars

\* the loops whose thread is alive
AliveLoops == {l \in 1..Len(loops) : loops[l] \in {"starting", "running"}}

\* C29 as stated: at most one event-loop thread of the pool is alive, and
\* every operation that is being executed runs on the pool's loop
C29_OneLoopThread ==
    /\ Cardinality(AliveLoops) <= 1
    /\ \A k \in 1..Len(tasks) : InProgress(k) => tasks[k].loop = pool.loop

\* the browsers launched by the pool that are not closed
OpenBrowsers == {b \in 1..Len(chromium.browsers) : chromium.browsers[b].state = "open"}

\* C30 as stated: at most one browser launched by the pool is open at any
\* time
C30_OneBrowserAlive == Cardinality(OpenBrowsers) <= 1

\* C26: a backend call of send_message is given the tool descriptors exactly
\* when it is one of the first R = MAX_TOOL_ROUNDS calls; the call of round
\* R+1 and the forced call are made without tools
C26_ToolsOfferedFirstRounds ==
    (client = "ollama" /\ calls >= 1) =>
        /\ request.tools = (calls <= MAX_TOOL_ROUNDS)
        /\ (pc \in {"chat", "tool"} /\ round_num < MAX_TOOL_ROUNDS => calls <= MAX_TOOL_ROUNDS)

\* C26 witness: the call of round R+1 was made without tools and was still
\* answered with tool calls, which are being executed
C26_Witness ==
    /\ client = "ollama"
    /\ calls = MAX_TOOL_ROUNDS + 1
    /\ ~request.tools
    /\ pc = "tool"
    /\ round_num = MAX_TOOL_ROUNDS

\* the texts that the tool message of a call of name can carry
ResultTexts(name) ==
    {Truncate(ToolResult(name, o)) :
        o \in (IF Invokes(name) THEN ToolOutcomes(get_tool(name))
               ELSE {[kind |-> "notfound", text |-> ""]})}

\* the positions of the assistant messages with tool calls in msgs
ToolCallMessages(msgs) ==
    {j \in 1..Len(msgs) : msgs[j].role = "assistant" /\ msgs[j].tool_calls # <<>>}

\* msgs ends with an assistant message with tool calls, then the tool
\* messages of the first n of these calls, in their order, then extra more
\* messages
EndsWithRound(msgs, n, extra) ==
    /\ ToolCallMessages(msgs) # {}
    /\ LET j == MaxOf(ToolCallMessages(msgs))
           tc == msgs[j].tool_calls
       IN /\ n <= Len(tc)
          /\ Len(msgs) = j + n + extra
          /\ \A i \in 1..n :
                /\ msgs[j + i].role = "tool"
                /\ msgs[j + i].content \in ResultTexts(tc[i])

\* C27: while a round's tool calls are executed the transcript ends with the
\* assistant's tool-call message and the results of the calls made so far,
\* in the order of the list; the transcript given to the next backend call
\* ends with that message and one tool message per call, in this order
\* (followed, for the forced call, by the system message)
C27_ToolCallsInOrder ==
    client = "ollama" =>
        /\ pc = "tool" =>
              /\ EndsWithRound(messages, tool_idx - 1, 0)
              /\ messages[MaxOf(ToolCallMessages(messages))].tool_calls = tool_calls
        /\ calls >= 2 =>
              /\ EndsWithRound(request.messages,
                               Len(request.messages[MaxOf(ToolCallMessages(request.messages))].tool_calls),
                               IF calls = MAX_TOOL_ROUNDS + 2 THEN 1 ELSE 0)

\* C27 witness: the second backend call was made after a round of three
\* tool calls, one of them for a name that is not registered
C27_Witness ==
    /\ client = "ollama"
    /\ calls = 2
    /\ ToolCallMessages(request.messages) # {}
    /\ Len(request.messages[MaxOf(ToolCallMessages(request.messages))].tool_calls) = 3
    /\ request.messages[Len(request.messages)].content = "search results"
    /\ request.messages[Len(request.messages) - 1].content = "Error: Tool ghost_tool not found."

\* the positions of the tool messages in msgs
ToolMessages(msgs) == {i \in 1..Len(msgs) : msgs[i].role = "tool"}

\* C28: when the rounds are exhausted, send_message returns the content of
\* the forced call if it is not empty, else the last two tool messages of
\* the transcript joined by an empty line, in their order; it returns the
\* apology only if the transcript has no tool message
C28_ExhaustedAnswer ==
    (client = "ollama" /\ pc \in {"save", "done"} /\ outcome = "exhausted") =>
        LET T == ToolMessages(messages)
        IN /\ last_resp.content # "" => returned = last_resp.content
           /\ (last_resp.content = "" /\ Cardinality(T) >= 2) =>
                 returned = messages[MaxOf(T \ {MaxOf(T)})].content \o "\n\n"
                            \o messages[MaxOf(T)].content
           /\ (last_resp.content = "" /\ Cardinality(T) = 1) =>
                 returned = messages[MaxOf(T)].content
           /\ returned = NO_SUMMARY => T = {}

\* C28 witness: the forced call returned no content after a last round of
\* three tool calls, and the answer is made of the last two results
C28_Witness ==
    /\ client = "ollama"
    /\ pc = "done"
    /\ outcome = "exhausted"
    /\ last_resp.content = ""
    /\ Len(tool_calls) = 3
    /\ returned = "Error: Tool ghost_tool not found.\n\nsearch results"

\* the last two calls of the client were discover_tools of one url, both
\* without force_refresh
TwoDiscoveries ==
    /\ web.stage = "idle"
    /\ web.prev.op = "discover"
    /\ web.last.op = "discover"
    /\ web.prev.url = web.last.url
    /\ ~web.prev.force
    /\ ~web.last.force

\* C22, as stated: two successive discover_tools(url) calls without
\* force_refresh open exactly one page between them, and the second one is
\* answered from the tool cache without a call of the pool.
C22_OnePageLoad ==
    TwoDiscoveries =>
        /\ web.last.end_pages - web.prev.start_pages = 1
        /\ web.last.pool_calls = 0
        /\ web.last.result.fromCache

\* C22, amended: when the first of two successive discover_tools(url) calls
\* without force_refresh returned a scan of the page, the second one calls
\* no method of the pool and returns that scan marked fromCache; when the
\* first one failed nothing was stored and the second one calls the pool
\* again.
C22_SecondFromCache ==
    TwoDiscoveries =>
        IF web.prev.failed = "no"
        THEN /\ web.last.pool_calls = 0
             /\ web.last.result = [web.prev.result EXCEPT !.fromCache = TRUE]
        ELSE /\ web.last.pool_calls >= 1
             /\ ~web.last.result.fromCache

C22_Witness ==
    /\ TwoDiscoveries
    /\ web.prev.failed = "no"
    /\ web.n >= 1
    /\ web.last.pool_calls = 0
    /\ web.last.result.fromCache

\* a discover_tools call has returned or raised
Discovered == web.stage = "idle" /\ web.last.op = "discover"

\* C23: discover_tools never raises, and a call in which get_page or
\* evaluate failed (browser start, page load, expired wait, script) returns
\* hasWebMCP = false, no tools and an error field that describes the failure.
C23_FailureDescribed ==
    Discovered =>
        /\ ~web.last.raised
        /\ web.last.failed # "no" =>
              /\ ~web.last.result.hasWebMCP
              /\ web.last.result.tools = <<>>
              /\ "error" \in DOMAIN web.last.result
              /\ web.last.result.error # ""

\* an execute_tool call has returned or raised
Executed == web.stage = "idle" /\ web.last.op = "execute"

\* the page has a native tool of that name with a handler function, or an
\* element marked with that name that is a form, a button or a link
Resolvable(site, name) ==
    \/ /\ site.modelContext
       /\ \E i \in 1..Len(site.native) :
             site.native[i].name = name /\ site.native[i].handler # "none"
    \/ \E i \in 1..Len(site.elements) :
          site.elements[i].name = name /\ site.elements[i].tag \in {"FORM", "BUTTON", "A"}

\* C24, as stated: execute_tool never raises; for a name that no native
\* handler and no executable marked element of the page resolves it returns
\* success = false with the not-found error; and it returns success = true
\* only when the script invoked a handler, submitted a form or clicked an
\* element.
C24_NotFoundError ==
    Executed =>
        /\ ~web.last.raised
        /\ ~Resolvable(SiteOf(web.last.url), web.last.name) =>
              /\ ~web.last.result.success
              /\ web.last.result.error = NotFoundError(web.last.name)
        /\ web.last.result.success => web.last.did \in {"handler", "submit", "click"}

\* C24, amended: execute_tool never raises; for a name that no native
\* handler and no executable marked element of the page resolves it returns
\* success = false, with the not-found error when the script ran on the page
\* and with the text of the exception when get_page or evaluate raised; and
\* it returns success = true only when the script invoked a handler,
\* submitted a form or clicked an element.
C24_NotFoundOrDone ==
    Executed =>
        /\ ~web.last.raised
        /\ ~Resolvable(SiteOf(web.last.url), web.last.name) =>
              /\ ~web.last.result.success
              /\ web.last.result.error =
                    IF web.last.failed = "no" THEN NotFoundError(web.last.name)
                    ELSE ErrorText(threads[WebThread].status)
        /\ web.last.result.success => web.last.did \in {"handler", "submit", "click"}

C24_Witness ==
    /\ Executed
    /\ web.last.name = "ghost"
    /\ web.last.failed = "no"
    /\ ~web.last.result.success
    /\ web.last.result.error = NotFoundError("ghost")

\* thread t returns from close() in this step
CloseReturns(t) ==
    /\ threads[t].pc = "close_stop"
    /\ threads'[t].pc = "idle"

\* the pages opened through the pool that are open
OpenPages(c) == {i \in 1..Len(c.pages) : ~c.pages[i].closed}

\* C31 as stated: when close() returns, _pages is empty and no page that the
\* pool opened is open, whatever the other threads are doing
C31_CloseDrainsPages ==
    [][\A t \in Threads :
          CloseReturns(t) =>
              /\ \A u \in URLs : pool'.pages[u] = 0
              /\ OpenPages(chromium') = {}]_vars

\* the step belongs to a call that may replace or drop the entry of url:
\* discover_tools(url, force_refresh=True), clear_cache or close
MayInvalidate(url) ==
    \/ web.call.op = "discover" /\ web.call.url = url /\ web.call.force
    \/ /\ web'.n = web.n + 1
       /\ \/ web'.call.op \in {"clear_cache", "close"}
          \/ web'.last.op = "clear_cache"

\* discover_tools(url) without force_refresh is called and returns in this step
DiscoverHit(url) ==
    /\ web.stage = "idle"
    /\ web'.stage = "idle"
    /\ web'.n = web.n + 1
    /\ web'.last.op = "discover"
    /\ web'.last.url = url
    /\ ~web'.last.force

\* C32: an entry of _tool_cache keeps its tool list in every step that does
\* not belong to discover_tools(url, force_refresh=True), clear_cache or
\* close, and discover_tools(url) without force_refresh returns that tool
\* list, marked fromCache, while the entry is there
C32_EntryKept ==
    [][\A u \in URLs :
          web.tool_cache[u] # <<>> =>
              /\ ~MayInvalidate(u) =>
                    /\ web'.tool_cache[u] # <<>>
                    /\ web'.tool_cache[u][1].tools = web.tool_cache[u][1].tools
              /\ web.stage = "idle" /\ web'.n = web.n + 1 /\ web'.call.op = "discover"
                    => web'.call.url # u \/ web'.call.force
              /\ DiscoverHit(u) =>
                    /\ web'.last.result.tools = web.tool_cache[u][1].tools
                    /\ web'.last.result.fromCache
                    /\ web'.last.pool_calls = 0]_vars

\* C32 witness: the entry of "u1" is still there after a discovery of "u2"
\* failed
C32_Witness ==
    /\ web.stage = "idle"
    /\ web.n >= 1
    /\ web.last.op = "discover"
    /\ web.last.url = "u2"
    /\ web.last.failed # "no"
    /\ web.tool_cache["u1"] # <<>>
    /\ web.tool_cache["u1"][1].tools = DISCOVER_TOOLS_JS(SiteOf("u1")).tools

\* the page has a native tool of that name whose handler is a function
NativeHandler(site, name) ==
    /\ site.modelContext
    /\ \E i \in 1..Len(site.native) :
          site.native[i].name = name /\ site.native[i].handler # "none"

\* that handler throws
HandlerThrows(site, name) ==
    \E i \in 1..Len(site.native) :
        site.native[i].name = name /\ site.native[i].handler = "throws"

\* C33: when the script of execute_tool ran, it submitted or clicked a
\* marked element only if the page has no native handler of that name; with
\* a native handler it called the handler and nothing else, and the result
\* comes from the native source, with success = false when the handler threw
C33_NativeFirst ==
    (Executed /\ web.last.failed = "no") =>
        LET site == SiteOf(web.last.url)
            name == web.last.name
        IN /\ web.last.did \in {"submit", "click"} => ~NativeHandler(site, name)
           /\ NativeHandler(site, name) =>
                 /\ web.last.did = "handler"
                 /\ web.last.result.source = "navigator.modelContext"
                 /\ web.last.result.success = ~HandlerThrows(site, name)

\* C33 witness: the native handler of "broken" threw, and the form marked
\* "broken" was not submitted
C33_Witness ==
    /\ Executed
    /\ web.last.failed = "no"
    /\ web.last.url = "u1"
    /\ web.last.name = "broken"
    /\ web.last.did = "handler"
    /\ ~web.last.result.success
    /\ web.last.result.source = "navigator.modelContext"

\* the text of a message of a backend request
TextOf(m) == IF "parts" \in DOMAIN m THEN m.parts[1] ELSE m.content

\* the positions of the user-role messages of a request
UserPositions(msgs) == {i \in 1..Len(msgs) : msgs[i].role = "user"}

\* C34 as stated: the request of the first backend call of a process_message
\* call has a user-role message, and the last one carries the text that was
\* passed in, with the memory context when there is one
C34_TextInFirstRequest ==
    calls = 1 =>
        /\ UserPositions(request.messages) # {}
        /\ TextOf(request.messages[MaxOf(UserPositions(request.messages))]) = content

\* C35 as stated: a registered tool is invoked only while the last backend
\* call was one in which tools were offered
C35_InvokedOnlyWhenOffered ==
    [][Len(invoked') > Len(invoked) => request.tools]_vars

\* the session id that the step writes for: the id given to save_message,
\* or the id of the process_message call that is saving
WrittenId == IF store_op' # store_op THEN store_op'.id ELSE sid

\* C36 as stated: a step of save_message or process_message for an id leaves
\* what load_session returns for every other id unchanged
C36_OtherSessionsUnchanged ==
    [][files' # files =>
          \A b \in StoreIds \ {WrittenId} :
              load_session(files', b) = load_session(files, b)]_vars

\* no method of the pool is being executed and no coroutine is left to run
Quiescent ==
    /\ \A t \in Threads : threads[t].pc = "idle"
    /\ \A k \in 1..Len(tasks) : Finished(k)

\* C37 as stated, for the moments at which no operation is in progress:
\* every open page that the pool created is the page kept in _pages for
\* some url, so that no url has a second open page
C37_OpenPagesAreCached ==
    Quiescent =>
        \A i \in OpenPages(chromium) : \E u \in URLs : pool.pages[u] = i

\* a caller still waits for coroutine k
Awaited(k) == \E t \in Threads : threads[t].task = k

\* C38 as stated: a page is put into _pages, or _initialized is set, only
\* in a step taken while some unfinished coroutine still has its caller
\* waiting; a coroutine whose caller's wait has expired does neither
C38_NoEffectAfterTimeout ==
    [][((\E u \in URLs : pool'.pages[u] # 0 /\ pool'.pages[u] # pool.pages[u])
        \/ (pool'.initialized /\ ~pool.initialized))
       => \E k \in 1..Len(tasks) : ~Finished(k) /\ Awaited(k)]_vars

\* the threads that are inside schedule.run_pending()
RunningJobs == {i \in 1..Len(sched.threads) : sched.threads[i] = "run_pending"}

\* C39: at any time at most one Scheduler thread is running the pending-job
\* loop: start() while running creates no second thread, and after stop()
\* followed by start() the earlier thread never runs pending jobs at the same
\* time as the new thread.
C39_OneSchedulerThread == Cardinality(RunningJobs) <= 1

====
